---------------------------- MODULE Spec2Model ----------------------------
(***************************************************************************)
(* A model of the example code of the vibe-security repository: the        *)
(* Next.js rate limiter, auth middleware, users API route and CSRF         *)
(* wrapper, and the React Native secure storage, biometric and permission  *)
(* helpers.  Each example is independent, so each has its own next-state   *)
(* relation and specification over the shared variable tuple.              *)
(***************************************************************************)
EXTENDS Integers, Sequences, FiniteSets, TLC

VARIABLES
    tokenCache,   \* rate limiter: the LRU cache, least recently used first
    streak,       \* ghost: check() calls per token since it was last untracked
    rl,           \* rate limiter: the outcome of the last call
    mw,           \* auth middleware: the last request and the response returned
    csrf,         \* withCsrfApiRoute: the requests in progress
    apiCache,     \* users API route: the cache of the route's limiter
    apiStreak,    \* ghost: check() calls per token since it was last untracked
    route,        \* users API route: the request in progress
    asyncStorage, \* secure storage: AsyncStorage, key -> string or Null
    keychain,     \* secure storage: Keychain, service -> password or Null
    lastWrite,    \* ghost: the last secureStore or secureRemove call of each key
    removed,      \* ghost: per key and level, removed with no successful store since
    storeCall,    \* secure storage: the last call and what it returned
    encCall,     \* secure storage: the concurrent secureStore calls
    bioKeychain,  \* biometrics: Keychain service biometric_${key} -> password
    bio,          \* biometrics: the call in progress
    platformOS,   \* permissions: Platform.OS
    permHistory,  \* permissions: the stored request history of each type
    perm,         \* permissions: the last call and what it returned
    permCalls,    \* permissions: requestPermission calls so far
    permRecorded, \* permissions: results savePermissionHistory calls recorded
    permCheck,    \* permissions: the last hasRequiredPermissions call
    fetchCall,    \* certificate pinning: the secureFetch call in progress
    apiReq,              \* API client: the requests
    apiOnline,           \* API client: what NetInfo reports
    requestQueue,        \* API client: requestQueue, as request ids
    isRefreshingToken,   \* API client: isRefreshingToken
    tokenRefreshPromise, \* API client: the refresh whose chain it is, 0: null
    refreshSubscribers,  \* API client: refreshSubscribers, as request ids
    refreshes,           \* API client: the refresh chains started
    authToken,           \* API client: what authProvider.getAccessToken gives
    logoutCalls,         \* API client: calls of authProvider.logout
    authSession,         \* auth provider: keychain service auth_session
    sessionsIssued,      \* auth provider: sessions the server has issued
    tokenCall            \* auth provider: the getAccessToken calls

rateVars == <<tokenCache, streak, rl>>
nextjsVars == <<mw, csrf>>

usersVars == <<apiCache, apiStreak, route>>

storeVars == <<asyncStorage, keychain, lastWrite, removed, storeCall, encCall>>

bioVars == <<bioKeychain, bio>>

permVars == <<platformOS, permHistory, perm, permCalls, permCheck, permRecorded>>

apiVars == <<apiReq, apiOnline, requestQueue, isRefreshingToken,
             tokenRefreshPromise, refreshSubscribers, refreshes, authToken,
             logoutCalls>>

tokenVars == <<authSession, sessionsIssued, tokenCall>>

vars == <<tokenCache, streak, rl, mw, csrf, apiCache, apiStreak, route,
          asyncStorage, keychain, lastWrite, removed, storeCall, encCall,
          bioKeychain, bio, platformOS, permHistory, perm, permCalls, permCheck,
          permRecorded,
          fetchCall, apiReq, apiOnline, requestQueue, isRefreshingToken,
          tokenRefreshPromise, refreshSubscribers, refreshes, authToken,
          logoutCalls, authSession, sessionsIssued, tokenCall>>

\* What each example leaves alone.
nonRate == <<mw, csrf, usersVars, storeVars, bioVars, permVars, fetchCall, apiVars, tokenVars>>
nonNextjs == <<tokenCache, streak, rl, usersVars, storeVars, bioVars, permVars, fetchCall, apiVars, tokenVars>>
nonUsers == <<tokenCache, streak, rl, mw, csrf, storeVars, bioVars, permVars, fetchCall, apiVars, tokenVars>>
nonStore == <<tokenCache, streak, rl, mw, csrf, usersVars, bioVars, permVars, fetchCall, apiVars, tokenVars>>
nonBio == <<tokenCache, streak, rl, mw, csrf, usersVars, storeVars, permVars, fetchCall, apiVars, tokenVars>>
nonFetch == <<tokenCache, streak, rl, mw, csrf, usersVars, storeVars, bioVars,
              permVars, apiVars, tokenVars>>
nonApi == <<tokenCache, streak, rl, mw, csrf, usersVars, storeVars, bioVars,
            permVars, fetchCall, tokenVars>>
nonToken == <<tokenCache, streak, rl, mw, csrf, usersVars, storeVars, bioVars,
              permVars, fetchCall, apiVars>>
nonPerm == <<tokenCache, streak, rl, mw, csrf, usersVars, storeVars, bioVars, fetchCall, apiVars, tokenVars>>

Max2(a, b) == IF a > b THEN a ELSE b

(***************************************************************************)
(* Rate limiter: src/examples/nextjs/utils/input-validation.js             *)
(***************************************************************************)

\* Bounds of the rate limiter model.
LimiterMaxRequests == 2
UniqueTokenPerInterval == 2
MaxLimit == 2
MaxCalls == 4

Tokens == {"ip1", "ip2", "ip3"}
Limits == 0 .. MaxLimit

\* tokenCache.get(token) || 0
CacheGet(cache, token) ==
    IF \E i \in 1 .. Len(cache) : cache[i].token = token
    THEN (CHOOSE e \in {cache[i] : i \in 1 .. Len(cache)} : e.token = token).count
    ELSE 0

CacheHas(cache, token) == \E i \in 1 .. Len(cache) : cache[i].token = token

CacheDelete(cache, token) == SelectSeq(cache, LAMBDA e : e.token # token)

\* tokenCache.set(token, count) of a cache built with { max }: the entry becomes
\* the most recently used one and the least recently used is evicted over max.
CacheSet(cache, token, count, max) ==
    LET put == Append(CacheDelete(cache, token), [token |-> token, count |-> count])
    IN IF Len(put) > max THEN Tail(put) ELSE put

\* The tokens CacheSet evicts.
Evicted(cache, token, max) ==
    {cache[i].token : i \in 1 .. Len(cache)}
        \ {e.token : e \in {CacheSet(cache, token, 1, max)[i] :
                              i \in 1 .. Len(CacheSet(cache, token, 1, max))}}

ExceededMutant(tokenCount, maxRequestsForToken) == tokenCount >= maxRequestsForToken

\* if (tokenCount > maxRequestsForToken)
Exceeded(tokenCount, maxRequestsForToken) == tokenCount > maxRequestsForToken

\* check(limit, token) of a limiter built with { maxRequests, uniqueTokenPerInterval }.
CheckCall(cache, limit, token, maxRequests, max) ==
    LET maxRequestsForToken == IF limit = 0 THEN maxRequests ELSE limit
        tokenCount == CacheGet(cache, token) + 1
    IN [cache     |-> CacheSet(cache, token, tokenCount, max),
        rejected  |-> Exceeded(tokenCount, maxRequestsForToken),
        limit     |-> maxRequestsForToken,
        remaining |-> Max2(0, maxRequestsForToken - tokenCount)]

\* The ghost count after a check(): the token's own count grows, an evicted
\* token is untracked again.
StreakAfterCheck(token, max) ==
    [t \in Tokens |->
        IF t = token THEN streak[t] + 1
        ELSE IF t \in Evicted(tokenCache, token, max) THEN 0
        ELSE streak[t]]

NoCall ==
    [op |-> "none", token |-> "", arg |-> 0, limit |-> 0, nth |-> 0, hdr |-> FALSE,
     settled |-> "none",
     status |-> 0, success |-> FALSE, headers |-> {}, handlerInvoked |-> FALSE]

RateInit ==
    /\ tokenCache = <<>>
    /\ streak = [t \in Tokens |-> 0]
    /\ rl = NoCall

\* await limiter.check(limit, token)
Check(limit, token) ==
    /\ CacheGet(tokenCache, token) < MaxCalls
    /\ LET r == CheckCall(tokenCache, limit, token, LimiterMaxRequests,
                          UniqueTokenPerInterval)
       IN /\ tokenCache' = r.cache
          /\ streak' = StreakAfterCheck(token, UniqueTokenPerInterval)
          /\ rl' = [NoCall EXCEPT
                       !.op = "check", !.token = token, !.arg = limit, !.limit = r.limit,
                       !.nth = streak[token] + 1,
                       !.settled = IF r.rejected THEN "rejected" ELSE "resolved",
                       !.status = IF r.rejected THEN 429 ELSE 0,
                       !.success = ~r.rejected]
    /\ UNCHANGED nonRate

\* The entry's ttl (interval) runs out: the cache drops it.
Expire(token) ==
    /\ CacheHas(tokenCache, token)
    /\ tokenCache' = CacheDelete(tokenCache, token)
    /\ streak' = [streak EXCEPT ![token] = 0]
    /\ UNCHANGED <<rl, nonRate>>

\* limiter.reset(token)
Reset(token) ==
    /\ tokenCache' = CacheDelete(tokenCache, token)
    /\ streak' = [streak EXCEPT ![token] = 0]
    /\ rl' = [NoCall EXCEPT !.op = "reset", !.token = token, !.settled = "resolved",
                            !.success = CacheHas(tokenCache, token)]
    /\ UNCHANGED nonRate

\* The value of `this` inside the arrow functions of the object rateLimit
\* returns: arrow functions take the `this` of the enclosing rateLimit call,
\* and rateLimit is called as a plain function of an ES module.
ThisOfRateLimit == "undefined"

RateLimitHeaders == {"X-RateLimit-Limit", "X-RateLimit-Remaining", "X-RateLimit-Reset"}

\* The handler limiter.withRateLimit(handler, { limit, headers }) returns, called
\* for a request whose key is token.
WithRateLimit(limit, headers, token) ==
    /\ CacheGet(tokenCache, token) < MaxCalls
    /\ IF ThisOfRateLimit # "limiter"
       THEN \* this.check: TypeError, caught; error.status is not 429
            /\ rl' = [NoCall EXCEPT
                         !.op = "withRateLimit", !.hdr = headers, !.token = token, !.arg = limit,
                         !.limit = limit, !.nth = streak[token] + 1,
                         !.settled = "resolved", !.status = 500]
            /\ UNCHANGED <<tokenCache, streak>>
       ELSE LET r == CheckCall(tokenCache, limit, token, LimiterMaxRequests,
                               UniqueTokenPerInterval)
            IN /\ tokenCache' = r.cache
               /\ streak' = StreakAfterCheck(token, UniqueTokenPerInterval)
               /\ rl' = IF ~r.rejected
                        THEN [NoCall EXCEPT
                                 !.op = "withRateLimit", !.hdr = headers, !.token = token,
                                 !.arg = limit, !.limit = r.limit,
                                 !.nth = streak[token] + 1, !.settled = "resolved",
                                 !.status = 200, !.success = TRUE,
                                 !.headers = IF headers THEN RateLimitHeaders ELSE {},
                                 !.handlerInvoked = TRUE]
                        ELSE \* the catch block reads headers, a const of the try block
                             [NoCall EXCEPT
                                 !.op = "withRateLimit", !.hdr = headers, !.token = token,
                                 !.arg = limit, !.limit = r.limit,
                                 !.nth = streak[token] + 1, !.settled = "rejected"]
    /\ UNCHANGED nonRate

\* The function limiter.middleware({ limit, headers }) returns, called for a
\* request whose key is token, with a next function.
Middleware(limit, headers, token) ==
    /\ CacheGet(tokenCache, token) < MaxCalls
    /\ IF ThisOfRateLimit # "limiter"
       THEN \* this.check: TypeError, caught; error.status is not 429
            /\ rl' = [NoCall EXCEPT
                         !.op = "middleware", !.hdr = headers, !.token = token, !.arg = limit,
                         !.limit = limit, !.nth = streak[token] + 1,
                         !.settled = "resolved", !.status = 500]
            /\ UNCHANGED <<tokenCache, streak>>
       ELSE LET r == CheckCall(tokenCache, limit, token, LimiterMaxRequests,
                               UniqueTokenPerInterval)
            IN /\ tokenCache' = r.cache
               /\ streak' = StreakAfterCheck(token, UniqueTokenPerInterval)
               /\ rl' = IF ~r.rejected
                        THEN [NoCall EXCEPT
                                 !.op = "middleware", !.hdr = headers, !.token = token,
                                 !.arg = limit, !.limit = r.limit,
                                 !.nth = streak[token] + 1, !.settled = "resolved",
                                 !.success = TRUE,
                                 !.headers = IF headers THEN RateLimitHeaders ELSE {},
                                 !.handlerInvoked = TRUE]
                        ELSE [NoCall EXCEPT
                                 !.op = "middleware", !.hdr = headers, !.token = token,
                                 !.arg = limit, !.limit = r.limit,
                                 !.nth = streak[token] + 1, !.settled = "resolved",
                                 !.status = 429,
                                 !.headers = IF headers
                                             THEN RateLimitHeaders \cup {"Retry-After"}
                                             ELSE {}]
    /\ UNCHANGED nonRate

(***************************************************************************)
(* Auth middleware: src/examples/nextjs/middleware/auth-middleware.js      *)
(* A pathname "/a/b" is the sequence <<"a", "b">> of its segments.         *)
(***************************************************************************)

\* Bound: the longest pathname, in segments.
MaxPathLen == 3

Segments == {"dashboard", "admin", "api", "x"}
Pathnames == UNION {[1 .. n -> Segments] : n \in 0 .. MaxPathLen}

protectedRoutes ==
    << [path |-> <<"dashboard">>, requiredRole |-> "user"],
       [path |-> <<"admin">>, requiredRole |-> "admin"],
       [path |-> <<"api", "admin">>, requiredRole |-> "admin"] >>

SecureHeaderNames ==
    {"X-DNS-Prefetch-Control", "Strict-Transport-Security", "X-XSS-Protection",
     "X-Content-Type-Options", "Referrer-Policy", "Content-Security-Policy",
     "Permissions-Policy"}

\* pathname === route.path || pathname.startsWith(`${route.path}/`)
RouteMatches(rt, pathname) ==
    \/ pathname = rt.path
    \/ /\ Len(pathname) > Len(rt.path)
       /\ SubSeq(pathname, 1, Len(rt.path)) = rt.path

IsProtectedRoute(pathname) ==
    \E i \in 1 .. Len(protectedRoutes) : RouteMatches(protectedRoutes[i], pathname)

\* protectedRoutes.find(...): the first route that matches
RouteConfig(pathname) ==
    LET i == CHOOSE j \in 1 .. Len(protectedRoutes) :
                 /\ RouteMatches(protectedRoutes[j], pathname)
                 /\ \A k \in 1 .. j - 1 : ~RouteMatches(protectedRoutes[k], pathname)
    IN protectedRoutes[i]

\* pathname.startsWith('/api/')
IsApiPath(pathname) == Len(pathname) >= 2 /\ pathname[1] = "api"

roleHierarchyMutant ==
    [r \in {"admin", "user", "guest"} |->
        IF r = "admin" THEN {"admin", "user", "guest"}
        ELSE IF r = "user" THEN {"admin", "user", "guest"}
        ELSE {"guest"}]

roleHierarchy ==
    [r \in {"admin", "user", "guest"} |->
        IF r = "admin" THEN {"admin", "user", "guest"}
        ELSE IF r = "user" THEN {"user", "guest"}
        ELSE {"guest"}]

\* The roles a token may carry: the three of the hierarchy, one it does not
\* know, the name of a property every object inherits, and no role at all.
TokenRoles == {"admin", "user", "guest", "editor", "constructor", "undefined"}
GetTokenResults ==
    {[kind |-> "throws", role |-> "undefined"], [kind |-> "null", role |-> "undefined"]}
        \cup {[kind |-> "token", role |-> r] : r \in TokenRoles}

\* userRole && roleHierarchy[userRole]?.includes(requiredRole); "throws" when
\* roleHierarchy[userRole] is an inherited property with no includes method.
HasAccess(userRole, requiredRole) ==
    IF userRole = "undefined" THEN "false"
    ELSE IF userRole \in DOMAIN roleHierarchy
    THEN (IF requiredRole \in roleHierarchy[userRole] THEN "true" ELSE "false")
    ELSE IF userRole = "constructor" THEN "throws"
    ELSE "false"

NextResponseNext ==
    [kind |-> "next", status |-> 200, location |-> "", headers |-> SecureHeaderNames]
Redirect(to) ==
    [kind |-> "redirect", status |-> 307, location |-> to, headers |-> {"Location"}]
JsonResponse(status) ==
    [kind |-> "json", status |-> status, location |-> "", headers |-> {"Content-Type"}]

\* The catch block of middleware.
MiddlewareCatch(pathname) ==
    IF IsApiPath(pathname) THEN JsonResponse(401) ELSE Redirect("/auth/error")

\* middleware(request), with what getToken does for the request.
MiddlewareResponse(pathname, got) ==
    IF ~IsProtectedRoute(pathname) THEN NextResponseNext
    ELSE IF got.kind = "throws" THEN MiddlewareCatch(pathname)
    ELSE IF got.kind = "null" THEN Redirect("/auth/login")
    ELSE LET hasAccess == HasAccess(got.role, RouteConfig(pathname).requiredRole)
         IN IF hasAccess = "throws" THEN MiddlewareCatch(pathname)
            ELSE IF hasAccess = "false"
            THEN (IF IsApiPath(pathname) THEN JsonResponse(403)
                  ELSE Redirect("/unauthorized"))
            ELSE NextResponseNext

AuthInit == mw = [pathname |-> <<>>, got |-> [kind |-> "null", role |-> "undefined"],
                  response |-> NextResponseNext]

AuthMiddleware(pathname, got) ==
    /\ mw' = [pathname |-> pathname, got |-> got,
              response |-> MiddlewareResponse(pathname, got)]
    /\ UNCHANGED <<csrf, nonNextjs>>

(***************************************************************************)
(* withCsrfApiRoute: src/examples/nextjs/utils/csrf-protection.js          *)
(***************************************************************************)

\* Bound: the requests the wrapped route serves at the same time.
NumCsrfRequests == 2

CsrfRequests == 1 .. NumCsrfRequests
ErrorCodes == {"CSRF_TOKEN_INVALID", "ECONNRESET", "undefined"}
HandlerStatuses == {200, 201, 404}

CsrfIdle ==
    [pc |-> "idle", csrfResult |-> "none", handlerInvoked |-> FALSE,
     thrown |-> "none", status |-> 0]

CsrfInit == csrf = [q \in CsrfRequests |-> CsrfIdle]

CsrfCatchStatusMutant(code) == IF code = "CSRF_TOKEN_INVALID" THEN 500 ELSE 403

\* The catch block of the function withCsrfApiRoute returns.
CsrfCatchStatus(code) == IF code = "CSRF_TOKEN_INVALID" THEN 403 ELSE 500

\* The wrapped route is called: await csrfMiddleware(req, res) starts.
CsrfRequest(q) ==
    /\ csrf[q].pc \in {"idle", "done"}
    /\ csrf' = [csrf EXCEPT ![q] = [CsrfIdle EXCEPT !.pc = "csrfMiddleware"]]
    /\ UNCHANGED <<mw, nonNextjs>>

\* csrfMiddleware resolves: return await withSession(req, res) calls the handler.
CsrfPasses(q) ==
    /\ csrf[q].pc = "csrfMiddleware"
    /\ csrf' = [csrf EXCEPT ![q].pc = "withSession", ![q].csrfResult = "ok",
                            ![q].handlerInvoked = TRUE]
    /\ UNCHANGED <<mw, nonNextjs>>

\* csrfMiddleware rejects with an error whose code is code.
CsrfFails(q, code) ==
    /\ csrf[q].pc = "csrfMiddleware"
    /\ csrf' = [csrf EXCEPT ![q].pc = "done", ![q].csrfResult = code,
                            ![q].thrown = code, ![q].status = CsrfCatchStatus(code)]
    /\ UNCHANGED <<mw, nonNextjs>>

\* The handler answers.
HandlerReturns(q, status) ==
    /\ csrf[q].pc = "withSession"
    /\ csrf' = [csrf EXCEPT ![q].pc = "done", ![q].status = status]
    /\ UNCHANGED <<mw, nonNextjs>>

\* The handler (or withSession) throws an error whose code is code.
HandlerThrows(q, code) ==
    /\ csrf[q].pc = "withSession"
    /\ csrf' = [csrf EXCEPT ![q].pc = "done", ![q].thrown = code,
                            ![q].status = CsrfCatchStatus(code)]
    /\ UNCHANGED <<mw, nonNextjs>>

NextAuth == \E p \in Pathnames, g \in GetTokenResults : AuthMiddleware(p, g)

NextCsrf ==
    \/ \E q \in CsrfRequests : CsrfRequest(q)
    \/ \E q \in CsrfRequests : CsrfPasses(q)
    \/ \E q \in CsrfRequests, c \in ErrorCodes : CsrfFails(q, c)
    \/ \E q \in CsrfRequests, st \in HandlerStatuses : HandlerReturns(q, st)
    \/ \E q \in CsrfRequests, c \in ErrorCodes : HandlerThrows(q, c)

(***************************************************************************)
(* Users API route: src/unnamed/part_002                                   *)
(***************************************************************************)

\* limiter.check(10, 'users_api') and limiter.check(5, 'create_user')
GetLimit == 10
PostLimit == 5
\* rateLimit({ interval, uniqueTokenPerInterval: 500 }): maxRequests defaults to 10
RouteMaxRequests == 10
RouteUniqueTokens == 500
\* Bound: the calls of check() modelled beyond a token's limit.
MaxOverLimit == 2

Methods == {"GET", "POST"}
RouteToken(method) == IF method = "GET" THEN "users_api" ELSE "create_user"
RouteLimit(method) == IF method = "GET" THEN GetLimit ELSE PostLimit

\* What getServerSession(authOptions) gives: it throws, there is no session, the
\* session has no user, or the session's user has a role.
SessionResults ==
    {[kind |-> "throws", role |-> ""], [kind |-> "null", role |-> ""],
     [kind |-> "nouser", role |-> ""]}
        \cup {[kind |-> "session", role |-> r] : r \in {"admin", "user", "guest"}}

\* The request's input: it passes the schema, fails it, or (a POST body) is
\* not JSON at all.
Inputs == {"valid", "invalid", "unparseable"}
DbResults == {"resolves", "P2002", "throws"}

RouteIdle ==
    [method |-> "GET", pc |-> "idle", checks |-> <<>>, status |-> 0, nth |-> 0,
     session |-> [kind |-> "null", role |-> ""], input |-> "none"]

UsersInit ==
    /\ apiCache = <<>>
    /\ apiStreak = [t \in {"users_api", "create_user"} |-> 0]
    /\ route = RouteIdle

\* The status of the response a failed check returns.
FailureStatus(check) ==
    CASE check = "rate" -> 429
      [] check = "session" -> 401
      [] check = "role" -> 403
      [] check = "input" -> 400

PcAfter(check) ==
    CASE check = "rate" -> "session"
      [] check = "session" -> "role"
      [] check = "role" -> "input"
      [] check = "input" -> "db"

AfterCheckMutant(r, check, passed) ==
    [r EXCEPT !.checks = Append(@, check),
              !.pc = IF passed \/ check = "role" THEN PcAfter(check) ELSE "done",
              !.status = IF passed \/ check = "role" THEN 0 ELSE FailureStatus(check)]

\* if (!passed) { return NextResponse.json(..., { status }) }: the handler
\* returns at a failed check and goes on to the next one otherwise.
AfterCheck(r, check, passed) ==
    [r EXCEPT !.checks = Append(@, check),
              !.pc = IF passed THEN PcAfter(check) ELSE "done",
              !.status = IF passed THEN 0 ELSE FailureStatus(check)]

\* The outer catch block: a ZodError gives 400, Prisma's P2002 (POST) 409,
\* anything else 500.
RouteCatch(method, error) ==
    IF error = "ZodError" THEN 400
    ELSE IF method = "POST" /\ error = "P2002" THEN 409
    ELSE 500

\* GET(request) or POST(request) is called.
RouteRequest(method) ==
    /\ route.pc \in {"idle", "done"}
    /\ route' = [RouteIdle EXCEPT !.method = method, !.pc = "rate"]
    /\ UNCHANGED <<apiCache, apiStreak, nonUsers>>

\* try { await limiter.check(limit, token) } catch { return 429 }
RouteRateLimit ==
    /\ route.pc = "rate"
    /\ CacheGet(apiCache, RouteToken(route.method))
           < RouteLimit(route.method) + MaxOverLimit
    /\ LET token == RouteToken(route.method)
           r == CheckCall(apiCache, RouteLimit(route.method), token,
                          RouteMaxRequests, RouteUniqueTokens)
       IN /\ apiCache' = r.cache
          /\ apiStreak' = [apiStreak EXCEPT ![token] = @ + 1]
          /\ route' = [AfterCheck(route, "rate", ~r.rejected)
                          EXCEPT !.nth = apiStreak[token] + 1]
    /\ UNCHANGED nonUsers

\* The ttl of a token of the route's limiter runs out.
RouteExpire(token) ==
    /\ CacheHas(apiCache, token)
    /\ apiCache' = CacheDelete(apiCache, token)
    /\ apiStreak' = [apiStreak EXCEPT ![token] = 0]
    /\ UNCHANGED <<route, nonUsers>>

\* const session = await getServerSession(authOptions); if (!session) ...
RouteSession(s) ==
    /\ route.pc = "session"
    /\ route' = IF s.kind = "throws"
                THEN [route EXCEPT !.pc = "done",
                                   !.status = RouteCatch(route.method, "Error")]
                ELSE [AfterCheck(route, "session", s.kind # "null")
                         EXCEPT !.session = s]
    /\ UNCHANGED <<apiCache, apiStreak, nonUsers>>

\* if (session.user.role !== 'admin') ...
RouteRole ==
    /\ route.pc = "role"
    /\ route' = IF route.session.kind = "nouser"
                THEN [route EXCEPT !.pc = "done",
                                   !.status = RouteCatch(route.method, "TypeError")]
                ELSE AfterCheck(route, "role", route.session.role = "admin")
    /\ UNCHANGED <<apiCache, apiStreak, nonUsers>>

\* validateInput(queryParams, userQuerySchema), or await request.json() and
\* validateInput(body, createUserSchema)
RouteValidate(input) ==
    /\ route.pc = "input"
    /\ input = "unparseable" => route.method = "POST"
    /\ route' = IF input = "unparseable"
                THEN [route EXCEPT !.pc = "done", !.input = input,
                                   !.status = RouteCatch(route.method, "SyntaxError")]
                ELSE [AfterCheck(route, "input", input = "valid")
                         EXCEPT !.input = input]
    /\ UNCHANGED <<apiCache, apiStreak, nonUsers>>

\* await fetchUsers(...) or await createUser(...), and the success response
RouteDb(result) ==
    /\ route.pc = "db"
    /\ route' = [route EXCEPT
                    !.pc = "done",
                    !.status = IF result = "resolves"
                               THEN (IF route.method = "GET" THEN 200 ELSE 201)
                               ELSE RouteCatch(route.method, result)]
    /\ UNCHANGED <<apiCache, apiStreak, nonUsers>>

NextUsers ==
    \/ \E m \in Methods : RouteRequest(m)
    \/ RouteRateLimit
    \/ \E t \in {"users_api", "create_user"} : RouteExpire(t)
    \/ \E x \in SessionResults : RouteSession(x)
    \/ RouteRole
    \/ \E i \in Inputs : RouteValidate(i)
    \/ \E d \in DbResults : RouteDb(d)

(***************************************************************************)
(* Secure storage: src/unnamed/part_000                                    *)
(* A string is the sequence of its UTF-16 code units; a JSON value is a    *)
(* record tagged with its type.                                            *)
(***************************************************************************)

\* Bounds: the longest string value and the longest encryption key.
MaxStrLen == 2
MaxKeyLen == 1

Null == [t |-> "null"]
Str(chars) == [t |-> "str", s |-> chars]
Num(n) == [t |-> "num", n |-> n]
Bool(b) == [t |-> "bool", b |-> b]
Obj(k, v) == [t |-> "obj", k |-> k, v |-> v]

\* The code units the values are written with: '1' and 'A'.
StrAlphabet == {49, 65}
\* The code units of an encryption key, of [0-9a-z]: '1' and 'a'.
KeyAlphabet == {49, 97}

\* The values stored: strings that are and are not JSON texts themselves, a
\* number, null and an object.
Strings == {x \in UNION {[1 .. n -> StrAlphabet] : n \in 1 .. MaxStrLen} :
               IF x[1] = 49 THEN Len(x) = 1
               ELSE Len(x) = MaxStrLen /\ \A i \in 2 .. Len(x) : x[i] = 49}
JsonValues == {Str(x) : x \in Strings} \cup {Num(1), Null, Obj(<<65>>, Num(1))}
EncryptionKeys == UNION {[1 .. n -> KeyAlphabet] : n \in 1 .. MaxKeyLen}

RECURSIVE Digits(_)
\* The decimal digits of n.
Digits(n) == IF n < 10 THEN <<48 + n>> ELSE Digits(n \div 10) \o <<48 + (n % 10)>>

RECURSIVE JSONstringify(_)
\* JSON.stringify(value); the strings modelled hold nothing to escape.
JSONstringify(v) ==
    CASE v.t = "str" -> <<34>> \o v.s \o <<34>>
      [] v.t = "num" -> Digits(v.n)
      [] v.t = "bool" -> IF v.b THEN <<116, 114, 117, 101>>
                         ELSE <<102, 97, 108, 115, 101>>
      [] v.t = "null" -> <<110, 117, 108, 108>>
      [] v.t = "obj" -> <<123, 34>> \o v.k \o <<34, 58>> \o JSONstringify(v.v) \o <<125>>

RECURSIVE DecimalValue(_)
DecimalValue(text) ==
    IF text = <<>> THEN 0
    ELSE 10 * DecimalValue(SubSeq(text, 1, Len(text) - 1)) + (text[Len(text)] - 48)

IsWhitespace(c) == c \in {9, 10, 13, 32}

RECURSIVE Trim(_)
Trim(text) ==
    IF text = <<>> THEN text
    ELSE IF IsWhitespace(text[1]) THEN Trim(Tail(text))
    ELSE IF IsWhitespace(text[Len(text)]) THEN Trim(SubSeq(text, 1, Len(text) - 1))
    ELSE text

\* The characters a JSON string literal holds unescaped.
PlainChars(text) == \A i \in 1 .. Len(text) : text[i] >= 32 /\ text[i] \notin {34, 92}

ParseError == [ok |-> FALSE, v |-> Null]
Parsed(v) == [ok |-> TRUE, v |-> v]

RECURSIVE ParseTrimmed(_)
\* JSON.parse of a text with no space around it: a number, a string, a
\* literal, or an object of one member; ok is FALSE where JSON.parse throws.
ParseTrimmed(text) ==
    IF text = <<>> THEN ParseError
    ELSE IF \A i \in 1 .. Len(text) : text[i] \in 48 .. 57
    THEN (IF text[1] = 48 /\ Len(text) > 1 THEN ParseError
          ELSE Parsed(Num(DecimalValue(text))))
    ELSE IF Len(text) >= 2 /\ text[1] = 34 /\ text[Len(text)] = 34
    THEN (IF PlainChars(SubSeq(text, 2, Len(text) - 1))
          THEN Parsed(Str(SubSeq(text, 2, Len(text) - 1)))
          ELSE ParseError)
    ELSE IF text = <<116, 114, 117, 101>> THEN Parsed(Bool(TRUE))
    ELSE IF text = <<102, 97, 108, 115, 101>> THEN Parsed(Bool(FALSE))
    ELSE IF text = <<110, 117, 108, 108>> THEN Parsed(Null)
    ELSE IF Len(text) >= 6 /\ text[1] = 123 /\ text[2] = 34 /\ text[Len(text)] = 125
              /\ \E i \in 3 .. Len(text) - 2 : text[i] = 34
    THEN LET q == CHOOSE i \in 3 .. Len(text) - 2 :
                      text[i] = 34 /\ \A j \in 3 .. i - 1 : text[j] # 34
             key == SubSeq(text, 3, q - 1)
             member == ParseTrimmed(Trim(SubSeq(text, q + 2, Len(text) - 1)))
         IN IF text[q + 1] = 58 /\ PlainChars(key) /\ member.ok
            THEN Parsed(Obj(key, member.v))
            ELSE ParseError
    ELSE ParseError

\* JSON.parse(text)
JSONparse(text) == ParseTrimmed(Trim(text))

RECURSIVE Xor(_, _)
\* a ^ b
Xor(a, b) ==
    IF a = 0 THEN b
    ELSE IF b = 0 THEN a
    ELSE ((a + b) % 2) + 2 * Xor(a \div 2, b \div 2)

\* text.charCodeAt(i) ^ key.charCodeAt(i % key.length), for every i
XorWithKey(text, key) ==
    [i \in 1 .. Len(text) |-> Xor(text[i], key[((i - 1) % Len(key)) + 1])]

RECURSIVE Utf8Encode(_)
\* Buffer.from(string): the UTF-8 bytes of the code units (below 0x10000).
Utf8Encode(str) ==
    IF str = <<>> THEN <<>>
    ELSE LET c == str[1]
         IN (IF c < 128 THEN <<c>>
             ELSE IF c < 2048 THEN <<192 + (c \div 64), 128 + (c % 64)>>
             ELSE <<224 + (c \div 4096), 128 + ((c \div 64) % 64), 128 + (c % 64)>>)
            \o Utf8Encode(Tail(str))

IsContinuation(b) == b >= 128 /\ b < 192

RECURSIVE Utf8Decode(_)
\* buffer.toString(): an invalid byte becomes U+FFFD.
Utf8Decode(bytes) ==
    IF bytes = <<>> THEN <<>>
    ELSE LET b == bytes[1]
         IN IF b < 128 THEN <<b>> \o Utf8Decode(Tail(bytes))
            ELSE IF b >= 194 /\ b < 224 /\ Len(bytes) >= 2 /\ IsContinuation(bytes[2])
            THEN <<(b - 192) * 64 + (bytes[2] - 128)>>
                     \o Utf8Decode(SubSeq(bytes, 3, Len(bytes)))
            ELSE IF b >= 224 /\ b < 240 /\ Len(bytes) >= 3
                      /\ IsContinuation(bytes[2]) /\ IsContinuation(bytes[3])
                      /\ (b - 224) * 4096 + (bytes[2] - 128) * 64 >= 2048
            THEN <<(b - 224) * 4096 + (bytes[2] - 128) * 64 + (bytes[3] - 128)>>
                     \o Utf8Decode(SubSeq(bytes, 4, Len(bytes)))
            ELSE <<65533>> \o Utf8Decode(Tail(bytes))

\* The character of a base64 digit: A-Z a-z 0-9 + /
Base64Char(d) ==
    IF d < 26 THEN 65 + d
    ELSE IF d < 52 THEN 97 + (d - 26)
    ELSE IF d < 62 THEN 48 + (d - 52)
    ELSE IF d = 62 THEN 43 ELSE 47

IsBase64Char(c) ==
    c \in (65 .. 90) \cup (97 .. 122) \cup (48 .. 57) \cup {43, 47}

Base64Digit(c) ==
    IF c \in 65 .. 90 THEN c - 65
    ELSE IF c \in 97 .. 122 THEN c - 97 + 26
    ELSE IF c \in 48 .. 57 THEN c - 48 + 52
    ELSE IF c = 43 THEN 62 ELSE 63

RECURSIVE Base64Encode(_)
\* buffer.toString('base64')
Base64Encode(bytes) ==
    IF bytes = <<>> THEN <<>>
    ELSE IF Len(bytes) = 1
    THEN <<Base64Char(bytes[1] \div 4), Base64Char((bytes[1] % 4) * 16), 61, 61>>
    ELSE IF Len(bytes) = 2
    THEN <<Base64Char(bytes[1] \div 4),
           Base64Char((bytes[1] % 4) * 16 + (bytes[2] \div 16)),
           Base64Char((bytes[2] % 16) * 4), 61>>
    ELSE <<Base64Char(bytes[1] \div 4),
           Base64Char((bytes[1] % 4) * 16 + (bytes[2] \div 16)),
           Base64Char((bytes[2] % 16) * 4 + (bytes[3] \div 64)),
           Base64Char(bytes[3] % 64)>>
             \o Base64Encode(SubSeq(bytes, 4, Len(bytes)))

RECURSIVE Base64Digits(_)
\* The base64 digits of a text up to its padding, other characters skipped.
Base64Digits(text) ==
    IF text = <<>> \/ text[1] = 61 THEN <<>>
    ELSE IF IsBase64Char(text[1]) THEN <<Base64Digit(text[1])>> \o Base64Digits(Tail(text))
    ELSE Base64Digits(Tail(text))

RECURSIVE Base64Bytes(_)
Base64Bytes(d) ==
    IF Len(d) < 2 THEN <<>>
    ELSE IF Len(d) = 2 THEN <<d[1] * 4 + (d[2] \div 16)>>
    ELSE IF Len(d) = 3
    THEN <<d[1] * 4 + (d[2] \div 16), (d[2] % 16) * 16 + (d[3] \div 4)>>
    ELSE <<d[1] * 4 + (d[2] \div 16), (d[2] % 16) * 16 + (d[3] \div 4),
           (d[3] % 4) * 64 + d[4]>> \o Base64Bytes(SubSeq(d, 5, Len(d)))

\* Buffer.from(text, 'base64')
Base64Decode(text) == Base64Bytes(Base64Digits(text))

\* _encryptXOR(text, key)
EncryptXOR(text, key) == Base64Encode(Utf8Encode(XorWithKey(text, key)))

\* _decryptXOR(encryptedBase64, key)
DecryptXOR(encryptedBase64, key) ==
    XorWithKey(Utf8Decode(Base64Decode(encryptedBase64)), key)

StorageKeys == {"k"}
Levels == {"standard", "sensitive", "critical"}

\* An entry of AsyncStorage or of the keychain: absent, or a string.
NoItem == [has |-> FALSE, s |-> <<>>]
Item(text) == [has |-> TRUE, s |-> text]

\* The keychain services of a key: service key holds a critical value and
\* service `${key}_encryption_key` the key of a sensitive one.
NoServices == [value |-> NoItem, encryption_key |-> NoItem]

NoStoreCall ==
    [op |-> "none", key |-> "", level |-> "", value |-> Null, threw |-> FALSE,
     ok |-> FALSE, result |-> Null]

\* The secureStore calls at level SENSITIVE that run at once.
NumStorers == 2

Storers == 1 .. NumStorers

\* A concurrent call: where it stands, its value, the key it drew and what it
\* returned.
NoEncCall == [pc |-> "idle", value |-> Null, encryptionKey |-> <<>>, ret |-> FALSE]

StoreInit ==
    /\ asyncStorage = [k \in StorageKeys |-> NoItem]
    /\ keychain = [k \in StorageKeys |-> NoServices]
    /\ lastWrite = [k \in StorageKeys |-> NoStoreCall]
    /\ removed = [k \in StorageKeys |-> [l \in Levels |-> FALSE]]
    /\ storeCall = NoStoreCall
    /\ encCall = [c \in Storers |-> NoEncCall]

\* typeof value === 'string' ? value : JSON.stringify(value)
KeychainPassword(value) == IF value.t = "str" THEN value.s ELSE JSONstringify(value)

\* try { return JSON.parse(password) } catch { return password }
ParseOrString(password) ==
    IF JSONparse(password).ok THEN JSONparse(password).v ELSE Str(password)

\* The ghosts after a secureStore or secureRemove call.
NoteWrite(call) ==
    /\ lastWrite' = [lastWrite EXCEPT ![call.key] = call]
    /\ removed' = [removed EXCEPT ![call.key][call.level] =
                      IF call.ok THEN call.op = "remove" ELSE @]
    /\ storeCall' = call
    /\ UNCHANGED encCall

\* secureStore(key, value, securityLevel); the storage call numbered throws
\* (0: none does), and encryptionKey is the key _storeEncrypted draws.
SecureStore(key, value, level, throws, encryptionKey) ==
    /\ throws \in (IF level = "sensitive" THEN 0 .. 2 ELSE 0 .. 1)
    /\ level # "sensitive" => encryptionKey = <<49>>
    /\ IF level = "critical"
       THEN \* _storeInKeychain
            /\ keychain' = IF throws = 1 THEN keychain
                           ELSE [keychain EXCEPT ![key].value = Item(KeychainPassword(value))]
            /\ UNCHANGED asyncStorage
       ELSE IF level = "sensitive"
       THEN \* _storeEncrypted
            /\ keychain' = IF throws = 1 THEN keychain
                           ELSE [keychain EXCEPT ![key].encryption_key = Item(encryptionKey)]
            /\ asyncStorage' =
                   IF throws # 0 THEN asyncStorage
                   ELSE [asyncStorage EXCEPT
                            ![key] = Item(EncryptXOR(JSONstringify(value), encryptionKey))]
       ELSE /\ asyncStorage' = IF throws = 1 THEN asyncStorage
                               ELSE [asyncStorage EXCEPT ![key] = Item(JSONstringify(value))]
            /\ UNCHANGED keychain
    /\ NoteWrite([NoStoreCall EXCEPT !.op = "store", !.key = key, !.level = level,
                                     !.value = value, !.threw = throws # 0,
                                     !.ok = throws = 0])
    /\ UNCHANGED nonStore

\* _retrieveFromKeychain(key)
RetrieveFromKeychain(key) ==
    IF ~keychain[key].value.has THEN Null
    ELSE ParseOrString(keychain[key].value.s)

\* _retrieveEncrypted(key)
RetrieveEncrypted(key) ==
    IF ~keychain[key].encryption_key.has THEN Null
    ELSE IF ~asyncStorage[key].has \/ asyncStorage[key].s = <<>> THEN Null
    ELSE LET decryptedStr == DecryptXOR(asyncStorage[key].s, keychain[key].encryption_key.s)
         IN IF JSONparse(decryptedStr).ok THEN JSONparse(decryptedStr).v ELSE Null

\* value ? JSON.parse(value) : null, inside secureRetrieve's try
RetrieveStandard(key) ==
    IF ~asyncStorage[key].has \/ asyncStorage[key].s = <<>> THEN Null
    ELSE IF JSONparse(asyncStorage[key].s).ok THEN JSONparse(asyncStorage[key].s).v
    ELSE Null

\* secureRetrieve(key, securityLevel); throws: a storage read throws.
SecureRetrieve(key, level, throws) ==
    /\ storeCall' =
           [NoStoreCall EXCEPT
               !.op = "retrieve", !.key = key, !.level = level, !.threw = throws,
               !.ok = ~throws,
               !.result = IF throws THEN Null
                          ELSE IF level = "critical" THEN RetrieveFromKeychain(key)
                          ELSE IF level = "sensitive" THEN RetrieveEncrypted(key)
                          ELSE RetrieveStandard(key)]
    /\ UNCHANGED <<asyncStorage, keychain, lastWrite, removed, encCall, nonStore>>

\* secureRemove(key, securityLevel); the storage call numbered throws.
SecureRemove(key, level, throws) ==
    /\ throws \in (IF level = "sensitive" THEN 0 .. 2 ELSE 0 .. 1)
    /\ IF level = "critical"
       THEN /\ keychain' = IF throws = 1 THEN keychain
                           ELSE [keychain EXCEPT ![key].value = NoItem]
            /\ UNCHANGED asyncStorage
       ELSE IF level = "sensitive"
       THEN /\ keychain' = IF throws = 1 THEN keychain
                           ELSE [keychain EXCEPT ![key].encryption_key = NoItem]
            /\ asyncStorage' = IF throws # 0 THEN asyncStorage
                               ELSE [asyncStorage EXCEPT ![key] = NoItem]
       ELSE /\ asyncStorage' = IF throws = 1 THEN asyncStorage
                               ELSE [asyncStorage EXCEPT ![key] = NoItem]
            /\ UNCHANGED keychain
    /\ NoteWrite([NoStoreCall EXCEPT !.op = "remove", !.key = key, !.level = level,
                                     !.threw = throws # 0, !.ok = throws = 0])
    /\ UNCHANGED nonStore

\* secureStore(key, value, SECURITY_LEVEL.SENSITIVE) is called and
\* _storeEncrypted draws its key, up to its first await.
StoreEncryptedBegins(c, key, value, encryptionKey) ==
    /\ encCall[c].pc = "idle"
    /\ encCall' = [encCall EXCEPT ![c] = [pc |-> "setGenericPassword",
                                          value |-> value,
                                          encryptionKey |-> encryptionKey,
                                          ret |-> FALSE]]
    /\ storeCall' = [NoStoreCall EXCEPT !.op = "store", !.key = key,
                                        !.level = "sensitive", !.value = value]
    /\ UNCHANGED <<asyncStorage, keychain, lastWrite, removed, nonStore>>

\* await Keychain.setGenericPassword(key, encryptionKey, ...) of call c
\* completes, or throws and secureStore returns false.
SetEncryptionKey(c, key, throws) ==
    /\ encCall[c].pc = "setGenericPassword"
    /\ keychain' = IF throws THEN keychain
                   ELSE [keychain EXCEPT
                            ![key].encryption_key = Item(encCall[c].encryptionKey)]
    /\ encCall' = [encCall EXCEPT ![c].pc = IF throws THEN "returned" ELSE "setItem"]
    /\ storeCall' = [NoStoreCall EXCEPT !.op = "store", !.key = key,
                                        !.level = "sensitive",
                                        !.value = encCall[c].value,
                                        !.threw = throws]
    /\ UNCHANGED <<asyncStorage, lastWrite, removed, nonStore>>

\* await AsyncStorage.setItem(key, encryptedValue) of call c completes and
\* secureStore returns true, or throws and it returns false.
SetEncryptedItem(c, key, throws) ==
    /\ encCall[c].pc = "setItem"
    /\ asyncStorage' =
           IF throws THEN asyncStorage
           ELSE [asyncStorage EXCEPT
                    ![key] = Item(EncryptXOR(JSONstringify(encCall[c].value),
                                             encCall[c].encryptionKey))]
    /\ encCall' = [encCall EXCEPT ![c].pc = "returned", ![c].ret = ~throws]
    /\ storeCall' = [NoStoreCall EXCEPT !.op = "store", !.key = key,
                                        !.level = "sensitive",
                                        !.value = encCall[c].value,
                                        !.threw = throws, !.ok = ~throws]
    /\ UNCHANGED <<keychain, lastWrite, removed, nonStore>>

\* Concurrent secureStore calls at level SENSITIVE on one key, and
\* secureRetrieve.
NextStoreConcurrent ==
    \/ \E c \in Storers, k \in StorageKeys, v \in JsonValues,
          e \in EncryptionKeys : StoreEncryptedBegins(c, k, v, e)
    \/ \E c \in Storers, k \in StorageKeys, f \in BOOLEAN :
          SetEncryptionKey(c, k, f)
    \/ \E c \in Storers, k \in StorageKeys, f \in BOOLEAN :
          SetEncryptedItem(c, k, f)
    \/ \E k \in StorageKeys, f \in BOOLEAN : SecureRetrieve(k, "sensitive", f)

NextStore ==
    \/ \E k \in StorageKeys, v \in JsonValues, l \in Levels, f \in 0 .. 2,
          e \in EncryptionKeys : SecureStore(k, v, l, f, e)
    \/ \E k \in StorageKeys, l \in Levels, f \in BOOLEAN : SecureRetrieve(k, l, f)
    \/ \E k \in StorageKeys, l \in Levels, f \in 0 .. 2 : SecureRemove(k, l, f)

(***************************************************************************)
(* Biometric helpers: src/unnamed/part_001                                 *)
(***************************************************************************)

BioKeys == {"a", "b"}

\* What biometrics.simplePrompt does: it resolves { success: true }, resolves
\* { success: false } when the user fails or cancels, or rejects.
PromptOutcomes == {"success", "fail", "cancel", "throws"}

AuthenticateMutant(outcome) == outcome # "throws"

\* authenticateWithBiometrics(promptMessage): success, or false once the
\* prompt throws
AuthenticateWithBiometrics(outcome) == outcome = "success"

\* The call in progress: before is the keychain when it started, ok what
\* secureBiometricData returned and result what retrieveBiometricData did.
NoBioCall ==
    [op |-> "none", key |-> "", data |-> Null, pc |-> "idle", prompt |-> "none",
     authenticated |-> FALSE, wrote |-> FALSE, read |-> FALSE,
     before |-> [k \in BioKeys |-> NoItem], ok |-> FALSE, result |-> Null]

BioInit ==
    /\ bioKeychain = [k \in BioKeys |-> NoItem]
    /\ bio = NoBioCall

\* secureBiometricData(key, data) is called.
SecureBiometricData(key, data) ==
    /\ bio.pc \in {"idle", "done"}
    /\ bio' = [NoBioCall EXCEPT !.op = "secureBiometricData", !.key = key,
                                !.data = data, !.pc = "prompt",
                                !.before = bioKeychain]
    /\ UNCHANGED <<bioKeychain, nonBio>>

\* retrieveBiometricData(key) is called.
RetrieveBiometricData(key) ==
    /\ bio.pc \in {"idle", "done"}
    /\ bio' = [NoBioCall EXCEPT !.op = "retrieveBiometricData", !.key = key,
                                !.pc = "prompt", !.before = bioKeychain]
    /\ UNCHANGED <<bioKeychain, nonBio>>

\* const authenticated = await authenticateWithBiometrics(promptMessage);
\* if (!authenticated) return false / null
SimplePrompt(outcome) ==
    /\ bio.pc = "prompt"
    /\ bio' = [bio EXCEPT !.prompt = outcome,
                          !.authenticated = AuthenticateWithBiometrics(outcome),
                          !.pc = IF AuthenticateWithBiometrics(outcome)
                                 THEN "keychain" ELSE "done"]
    /\ UNCHANGED <<bioKeychain, nonBio>>

\* await Keychain.setGenericPassword(key, JSON.stringify(data), ...);
\* return true, or false from the catch
SetGenericPassword(throws) ==
    /\ bio.pc = "keychain"
    /\ bio.op = "secureBiometricData"
    /\ bioKeychain' = IF throws THEN bioKeychain
                      ELSE [bioKeychain EXCEPT ![bio.key] = Item(JSONstringify(bio.data))]
    /\ bio' = [bio EXCEPT !.pc = "done", !.wrote = ~throws, !.ok = ~throws]
    /\ UNCHANGED nonBio

\* try { return JSON.parse(credentials.password) } catch { return it }
BiometricParse(password) == ParseOrString(password)

\* const credentials = await Keychain.getGenericPassword(...) and the return
GetGenericPassword(throws) ==
    /\ bio.pc = "keychain"
    /\ bio.op = "retrieveBiometricData"
    /\ bio' = [bio EXCEPT !.pc = "done", !.read = ~throws,
                          !.result = IF throws \/ ~bioKeychain[bio.key].has THEN Null
                                     ELSE BiometricParse(bioKeychain[bio.key].s)]
    /\ UNCHANGED <<bioKeychain, nonBio>>

NextBio ==
    \/ \E k \in BioKeys, d \in JsonValues : SecureBiometricData(k, d)
    \/ \E k \in BioKeys : RetrieveBiometricData(k)
    \/ \E o \in PromptOutcomes : SimplePrompt(o)
    \/ \E f \in BOOLEAN : SetGenericPassword(f)
    \/ \E f \in BOOLEAN : GetGenericPassword(f)

(***************************************************************************)
(* Permissions manager:                                                    *)
(* src/examples/react-native/utils/permissions-manager.js                  *)
(***************************************************************************)

\* The requestPermission calls of a run.
MaxPermCalls == 3

Platforms == {"ios", "android"}
NoPermission == "null"

PERMISSION_TYPES ==
    [CAMERA |-> [ios |-> "ios.permission.CAMERA",
                 android |-> "android.permission.CAMERA", critical |-> FALSE],
     NOTIFICATIONS |-> [ios |-> "ios.permission.NOTIFICATIONS",
                        android |-> NoPermission, critical |-> TRUE]]

\* The types a caller passes: the configured ones and one that is not.
PermissionTypes == DOMAIN PERMISSION_TYPES \cup {"UNKNOWN"}

\* RESULTS of react-native-permissions
RESULTS ==
    [UNAVAILABLE |-> "unavailable", BLOCKED |-> "blocked", DENIED |-> "denied",
     GRANTED |-> "granted", LIMITED |-> "limited"]
Statuses == {RESULTS[r] : r \in DOMAIN RESULTS}

\* history[permissionType].slice(-5)
HistoryLimit == 5
\* denials.length >= 3
DenialLimit == 3

\* getPermissionByPlatform(type)
GetPermissionByPlatform(type, os) ==
    IF type \notin DOMAIN PERMISSION_TYPES THEN NoPermission
    ELSE PERMISSION_TYPES[type][os]

\* The savePermissionHistory calls that recorded a result
MaxSaves == 6

SavePermissionHistoryMutant(history, permissionType, result, fails) ==
    IF fails THEN history
    ELSE LET pushed == Append(history[permissionType], [result |-> result])
         IN [history EXCEPT
                ![permissionType] =
                    IF Len(pushed) > HistoryLimit
                    THEN SubSeq(pushed, 1, HistoryLimit)
                    ELSE pushed]

\* savePermissionHistory(permissionType, result); fails: AsyncStorage throws
\* and the catch swallows it.
SavePermissionHistory(history, permissionType, result, fails) ==
    IF fails THEN history
    ELSE LET pushed == Append(history[permissionType], [result |-> result])
         IN [history EXCEPT
                ![permissionType] =
                    IF Len(pushed) > HistoryLimit
                    THEN SubSeq(pushed, Len(pushed) - HistoryLimit + 1, Len(pushed))
                    ELSE pushed]

\* getPermissionHistory(permissionType); fails: [] from the catch
GetPermissionHistory(history, permissionType, fails) ==
    IF fails THEN <<>> ELSE history[permissionType]

\* isTooManyRequests(permissionType)
IsTooManyRequests(history, permissionType, fails) ==
    LET items == GetPermissionHistory(history, permissionType, fails)
    IN Cardinality({i \in 1 .. Len(items) :
                       items[i].result \in {RESULTS.DENIED, RESULTS.BLOCKED}})
           >= DenialLimit

\* The buttons of the two dialogs; after "Open Settings" openSettings() may
\* reject, and then the dialog's promise never resolves.
RationaleAnswers == {"Not Now", "Continue"}
SettingsAnswers == {"Not Now", "Open Settings", "Open Settings rejects"}

\* showPermissionRationale(permission)
ShowPermissionRationale(answer) == answer = "Continue"

\* showSettingsDialog(permission)
ShowSettingsDialog(answer) == answer = "Open Settings"

NoPermCall ==
    [op |-> "none", type |-> "", skipRationale |-> FALSE, status |-> "none",
     dialog |-> "none", answer |-> "none", requested |-> FALSE,
     result |-> "none", returned |-> FALSE, ret |-> FALSE]

\* The lists hasRequiredPermissions is called with hold at most this many types.
MaxPermListLen == 2

PermissionLists == UNION {[1 .. n -> PermissionTypes] : n \in 0 .. MaxPermListLen}

\* What check(permission) does for each configured type: resolves with its
\* current status, or rejects.
CheckOutcomes == [DOMAIN PERMISSION_TYPES -> Statuses \cup {"throws"}]

\* checkMultiplePermissions(permissionTypes): the results object, type -> status
CheckMultiplePermissions(permissionTypes, os, outcome) ==
    LET permissionsToCheck ==
            {permissionTypes[i] : i \in 1 .. Len(permissionTypes)}
                \ {t \in PermissionTypes : GetPermissionByPlatform(t, os) = NoPermission}
    IN [t \in permissionsToCheck |->
           IF outcome[t] = "throws" THEN RESULTS.UNAVAILABLE ELSE outcome[t]]

\* Object.values(statuses).every(status => status === RESULTS.GRANTED)
EveryGranted(statuses) ==
    \A t \in DOMAIN statuses : statuses[t] = RESULTS.GRANTED

NoPermCheck ==
    [op |-> "none", list |-> <<>>, outcome |-> <<>>, statuses |-> <<>>,
     ret |-> FALSE]

PermInit ==
    /\ platformOS = "unset"
    /\ permHistory = [t \in DOMAIN PERMISSION_TYPES |-> <<>>]
    /\ perm = NoPermCall
    /\ permCalls = 0
    /\ permCheck = NoPermCheck
    /\ permRecorded = [t \in DOMAIN PERMISSION_TYPES |-> <<>>]

\* The app starts on a platform: Platform.OS
Launch(os) ==
    /\ platformOS = "unset"
    /\ platformOS' = os
    /\ UNCHANGED <<permHistory, perm, permCalls, permCheck, permRecorded, nonPerm>>

\* requestPermission settles (or, with returned FALSE, never does).
PermReturn(call, history) ==
    /\ perm' = call
    /\ permHistory' = history
    /\ permCalls' = permCalls + 1
    /\ UNCHANGED <<platformOS, permCheck, permRecorded, nonPerm>>

\* const wentToSettings = await showSettingsDialog(permissionConfig);
\* return wentToSettings;
ReturnWentToSettings(call, history) ==
    \E answer \in SettingsAnswers :
        PermReturn([call EXCEPT !.dialog = "settings", !.answer = answer,
                                !.returned = answer # "Open Settings rejects",
                                !.ret = ShowSettingsDialog(answer)],
                   history)

\* The RESULTS.DENIED case of requestPermission.
DeniedCase(call, history, storageFails) ==
    IF IsTooManyRequests(history, call.type, storageFails)
    THEN ReturnWentToSettings(call, history)
    ELSE \E answer \in RationaleAnswers :
           /\ call.skipRationale => answer = "Continue"
           /\ LET asked == IF call.skipRationale THEN call
                           ELSE [call EXCEPT !.dialog = "rationale",
                                             !.answer = answer]
              IN IF ~call.skipRationale /\ ~ShowPermissionRationale(answer)
                 THEN PermReturn(asked, history)
                 ELSE \E result \in Statuses \cup {"throws"} :
                        LET requested == [asked EXCEPT !.requested = TRUE,
                                                       !.result = result]
                        IN IF result = "throws"
                           THEN PermReturn(requested, history)
                           ELSE PermReturn(
                                    [requested EXCEPT
                                        !.ret = result = RESULTS.GRANTED],
                                    SavePermissionHistory(history, call.type,
                                                          result, storageFails))

\* requestPermission(permissionType, skipRationale); storageFails: the
\* AsyncStorage calls of this call throw.
RequestPermission(permissionType, skipRationale, storageFails) ==
    /\ platformOS # "unset"
    /\ permCalls < MaxPermCalls
    /\ LET call == [NoPermCall EXCEPT !.op = "requestPermission",
                                      !.type = permissionType,
                                      !.skipRationale = skipRationale,
                                      !.returned = TRUE]
       IN IF GetPermissionByPlatform(permissionType, platformOS) = NoPermission
          THEN /\ ~storageFails
               /\ PermReturn(call, permHistory)
          ELSE \E status \in Statuses \cup {"throws"} :
                 LET checked == [call EXCEPT !.status = status]
                     saved == SavePermissionHistory(permHistory, permissionType,
                                                    status, storageFails)
                 IN IF status = "throws"
                    THEN ~storageFails /\ PermReturn(checked, permHistory)
                    ELSE IF status = RESULTS.GRANTED
                    THEN PermReturn([checked EXCEPT !.ret = TRUE], saved)
                    ELSE IF status = RESULTS.DENIED
                    THEN DeniedCase(checked, saved, storageFails)
                    ELSE IF status \in {RESULTS.BLOCKED, RESULTS.UNAVAILABLE}
                    THEN ReturnWentToSettings(checked, saved)
                    ELSE PermReturn(checked, saved)

\* clearPermissionHistory(permissionType), "all" for no argument
ClearPermissionHistory(permissionType, fails) ==
    /\ platformOS # "unset"
    /\ permHistory' =
           IF fails THEN permHistory
           ELSE [t \in DOMAIN permHistory |->
                    IF permissionType \in {t, "all"} THEN <<>> ELSE permHistory[t]]
    /\ permRecorded' =
           IF fails THEN permRecorded
           ELSE [t \in DOMAIN permRecorded |->
                    IF permissionType \in {t, "all"} THEN <<>> ELSE permRecorded[t]]
    /\ perm' = [NoPermCall EXCEPT !.op = "clearPermissionHistory",
                                  !.type = permissionType, !.returned = TRUE]
    /\ UNCHANGED <<platformOS, permCalls, permCheck, nonPerm>>

\* The number of results recorded
Saves(recorded) ==
    LET RECURSIVE Sum(_)
        Sum(types) == IF types = {} THEN 0
                      ELSE LET t == CHOOSE x \in types : TRUE
                           IN Len(recorded[t]) + Sum(types \ {t})
    IN Sum(DOMAIN recorded)

\* savePermissionHistory(permissionType, result) called on its own, with the
\* results it recorded since the history was last cleared kept in permRecorded
SavePermissionHistoryCall(permissionType, result, fails) ==
    /\ platformOS # "unset"
    /\ Saves(permRecorded) < MaxSaves
    /\ permHistory' = SavePermissionHistory(permHistory, permissionType, result,
                                            fails)
    /\ permRecorded' =
           IF fails THEN permRecorded
           ELSE [permRecorded EXCEPT ![permissionType] = Append(@, result)]
    /\ perm' = [NoPermCall EXCEPT !.op = "savePermissionHistory",
                                  !.type = permissionType, !.result = result,
                                  !.returned = TRUE]
    /\ UNCHANGED <<platformOS, permCalls, permCheck, nonPerm>>

\* hasRequiredPermissions(requiredPermissions)
HasRequiredPermissions(requiredPermissions, outcome) ==
    /\ platformOS # "unset"
    /\ LET statuses == CheckMultiplePermissions(requiredPermissions, platformOS,
                                                outcome)
       IN permCheck' = [op |-> "hasRequiredPermissions",
                        list |-> requiredPermissions, outcome |-> outcome,
                        statuses |-> statuses, ret |-> EveryGranted(statuses)]
    /\ UNCHANGED <<platformOS, permHistory, perm, permCalls, permRecorded, nonPerm>>

NextPermCheck ==
    \/ \E os \in Platforms : Launch(os)
    \/ \E l \in PermissionLists, o \in CheckOutcomes : HasRequiredPermissions(l, o)

\* The results the history calls are made with
HistoryResults == {RESULTS.GRANTED, RESULTS.DENIED}

NextHistory ==
    \/ \E os \in Platforms : Launch(os)
    \/ \E t \in DOMAIN PERMISSION_TYPES, r \in HistoryResults, f \in BOOLEAN :
          SavePermissionHistoryCall(t, r, f)
    \/ \E t \in DOMAIN PERMISSION_TYPES \cup {"all"}, f \in BOOLEAN :
          ClearPermissionHistory(t, f)

NextPerm ==
    \/ \E os \in Platforms : Launch(os)
    \/ \E t \in PermissionTypes, s \in BOOLEAN, f \in BOOLEAN :
          RequestPermission(t, s, f)
    \/ \E t \in DOMAIN PERMISSION_TYPES \cup {"all"}, f \in BOOLEAN :
          ClearPermissionHistory(t, f)

(***************************************************************************)
(* Certificate pinning: the second module of                               *)
(* src/examples/react-native/utils/permissions-manager.js                  *)
(***************************************************************************)

\* The labels of a hostname are at most this many.
MaxHostLabels == 4

HostLabels == {"api", "auth", "example", "com"}

\* urlObj.hostname, as its labels
Hostnames == UNION {[1 .. n -> HostLabels] : n \in 1 .. MaxHostLabels}

\* The url argument: one new URL(url) parses, or one it throws on.
InvalidUrl == [valid |-> FALSE, host |-> <<>>]
Urls == {[valid |-> TRUE, host |-> h] : h \in Hostnames} \cup {InvalidUrl}

PINNED_DOMAINS ==
    (<<"api", "example", "com">> :>
        [includeSubdomains |-> TRUE, certs |-> {"sha256/AAA", "sha256/BBB"}])
    @@ (<<"auth", "example", "com">> :>
        [includeSubdomains |-> FALSE, certs |-> {"sha256/CCC"}])

\* return null
NoPinnedDomain == [includeSubdomains |-> FALSE, certs |-> {}]

\* domain.endsWith(`.${pinnedDomain}`)
EndsWithDot(domain, pinnedDomain) ==
    /\ Len(domain) > Len(pinnedDomain)
    /\ SubSeq(domain, Len(domain) - Len(pinnedDomain) + 1, Len(domain)) = pinnedDomain

FindPinnedDomainMutant(domain) ==
    IF domain \in DOMAIN PINNED_DOMAINS THEN PINNED_DOMAINS[domain]
    ELSE NoPinnedDomain

\* findPinnedDomain(domain)
FindPinnedDomain(domain) ==
    IF domain \in DOMAIN PINNED_DOMAINS THEN PINNED_DOMAINS[domain]
    ELSE IF \E p \in DOMAIN PINNED_DOMAINS :
               PINNED_DOMAINS[p].includeSubdomains /\ EndsWithDot(domain, p)
    THEN PINNED_DOMAINS[CHOOSE p \in DOMAIN PINNED_DOMAINS :
                           PINNED_DOMAINS[p].includeSubdomains /\ EndsWithDot(domain, p)]
    ELSE NoPinnedDomain

\* What NetInfo.fetch() gives for isConnected, or that it rejects.
NetworkStates == {"true", "false", "null", "throws"}

\* What the fetch or sslPinningFetch call does.
FetchOutcomes == {"response", "certificate error", "network error"}

NoFetchCall ==
    [pc |-> "idle", url |-> InvalidUrl, isConnected |-> "none", via |-> "none",
     certs |-> {}, settled |-> "none", error |-> "none"]

FetchInit == fetchCall = NoFetchCall

\* secureFetch(url, options, timeout) is called. The function keeps nothing
\* from one call to the next, so a behaviour follows one call.
SecureFetch(url) ==
    /\ fetchCall.pc = "idle"
    /\ fetchCall' = [NoFetchCall EXCEPT !.pc = "netinfo", !.url = url]
    /\ UNCHANGED nonFetch

\* const networkState = await NetInfo.fetch();
\* if (!networkState.isConnected) throw new Error('No internet connection')
NetInfoFetch(isConnected) ==
    /\ fetchCall.pc = "netinfo"
    /\ fetchCall' =
           IF isConnected = "true"
           THEN [fetchCall EXCEPT !.pc = "send", !.isConnected = isConnected]
           ELSE [fetchCall EXCEPT
                    !.pc = "done", !.isConnected = isConnected,
                    !.settled = "rejected",
                    !.error = IF isConnected = "throws" THEN "network error"
                              ELSE "No internet connection"]
    /\ UNCHANGED nonFetch

\* new URL(url), findPinnedDomain(domain) and the call of fetch or of
\* sslPinningFetch with the entry's certs
SendRequest ==
    /\ fetchCall.pc = "send"
    /\ fetchCall' =
           IF ~fetchCall.url.valid
           THEN [fetchCall EXCEPT !.pc = "done", !.settled = "rejected",
                                  !.error = "Invalid URL"]
           ELSE LET pinnedDomain == FindPinnedDomain(fetchCall.url.host)
                IN IF pinnedDomain = NoPinnedDomain
                   THEN [fetchCall EXCEPT !.pc = "response", !.via = "fetch"]
                   ELSE [fetchCall EXCEPT !.pc = "response",
                                          !.via = "sslPinningFetch",
                                          !.certs = pinnedDomain.certs]
    /\ UNCHANGED nonFetch

\* error.message.includes('certificate') || ... in the catch of secureFetch
FetchCatch(error) ==
    IF error = "certificate error"
    THEN "Security error: Server certificate validation failed"
    ELSE error

\* The request settles and secureFetch returns or throws.
FetchResponse(outcome) ==
    /\ fetchCall.pc = "response"
    /\ fetchCall' =
           IF outcome = "response"
           THEN [fetchCall EXCEPT !.pc = "done", !.settled = "resolved"]
           ELSE [fetchCall EXCEPT !.pc = "done", !.settled = "rejected",
                                  !.error = FetchCatch(outcome)]
    /\ UNCHANGED nonFetch

NextFetch ==
    \/ \E u \in Urls : SecureFetch(u)
    \/ \E c \in NetworkStates : NetInfoFetch(c)
    \/ SendRequest
    \/ \E o \in FetchOutcomes : FetchResponse(o)

(***************************************************************************)
(* API client: src/examples/react-native/README.md                         *)
(***************************************************************************)

\* The requests of a run, the refreshes they may start and the times one
\* request goes on the wire.
NumApiRequests == 2
MaxRefreshes == 2
MaxSends == 3

ApiRequests == 1 .. NumApiRequests
RefreshIds == 1 .. MaxRefreshes

\* What authProvider.getAccessToken gives: no token (null), the token of
\* the session the run starts with, or the one the nth refresh stored.
NoToken == 0
FirstToken == 1
TokenOfRefresh(id) == FirstToken + id

\* retry-after of a 429 response: absent, or a number of seconds
RetryAfterHeaders == {0, 1, 2}

\* const retryAfter = error.response.headers['retry-after'] || 5;
\* the delay is retryAfter * 1000
DefaultRetryAfter == 5
RetryDelay(header) ==
    (IF header = 0 THEN DefaultRetryAfter ELSE header) * 1000

\* A request: where its promise stands (pc), config._retry, the token of its
\* Authorization header, the times it went on the wire, the times a
\* subscriber callback re-sent it, the refresh promise its reject hangs on,
\* the delays of its 429 retries, the interceptor that queued it, whether a
\* request-interceptor promise encloses it, the last status it received and
\* what its caller got.
NewRequest ==
    [pc |-> "new", retry |-> FALSE, auth |-> NoToken, sends |-> 0,
     resent |-> 0, subscribed |-> 0, waitingOn |-> 0, delays |-> <<>>,
     queuedBy |-> "none", requeued |-> 0, viaRequestQueue |-> FALSE,
     last |-> 0, result |-> "none"]

\* A refresh: authProvider.refreshToken() is pending ("refreshing"),
\* getAccessToken() is ("fetching"), or the chain has settled.
NoRefresh == [st |-> "none", outcome |-> "none"]

ApiInit ==
    /\ apiReq = [r \in ApiRequests |-> NewRequest]
    /\ apiOnline = TRUE
    /\ requestQueue = <<>>
    /\ isRefreshingToken = FALSE
    /\ tokenRefreshPromise = 0
    /\ refreshSubscribers = <<>>
    /\ refreshes = [i \in RefreshIds |-> NoRefresh]
    /\ authToken = FirstToken
    /\ logoutCalls = 0

SeqToSet(q) == {q[i] : i \in 1 .. Len(q)}

RefreshesStarted == Cardinality({i \in RefreshIds : refreshes[i].st # "none"})

\* if (token) config.headers.Authorization = `Bearer ${token}`
WithToken(request, token) ==
    IF token = NoToken THEN request ELSE [request EXCEPT !.auth = token]

\* requestQueue.push({ config, resolve, reject }) and the promise returned
Enqueue(request, by) ==
    [request EXCEPT !.pc = "queued", !.queuedBy = by,
                    !.viaRequestQueue = @ \/ by = "request"]

\* apiClient(config): the request interceptor, and the request goes on the
\* wire unless NetInfo reports no connection.
ApiClient(r) ==
    /\ apiReq[r].pc \in {"new", "resend"}
    /\ IF ~apiOnline
       THEN /\ apiReq' = [apiReq EXCEPT ![r] = Enqueue(@, "request")]
            /\ requestQueue' = Append(requestQueue, r)
       ELSE /\ apiReq[r].sends < MaxSends
            /\ apiReq' = [apiReq EXCEPT
                             ![r] = [WithToken(@, authToken) EXCEPT
                                        !.pc = "sent", !.sends = @ + 1]]
            /\ UNCHANGED requestQueue
    /\ UNCHANGED <<apiOnline, isRefreshingToken, tokenRefreshPromise,
                   refreshSubscribers, refreshes, authToken, logoutCalls, nonApi>>

\* The response interceptor's first function: the caller gets the response,
\* unless a promise of the request interceptor encloses the request: that
\* one resolves with the response where the interceptor returns a config.
RespondOk(r) ==
    /\ apiReq[r].pc = "sent"
    /\ apiReq' = [apiReq EXCEPT
                     ![r] = IF @.viaRequestQueue
                            THEN [@ EXCEPT !.pc = "dispatching", !.last = 200]
                            ELSE [@ EXCEPT !.pc = "resolved", !.last = 200,
                                           !.result = "response"]]
    /\ UNCHANGED <<apiOnline, requestQueue, isRefreshingToken,
                   tokenRefreshPromise, refreshSubscribers, refreshes,
                   authToken, logoutCalls, nonApi>>

\* The response object goes to dispatchRequest as the config of a request:
\* what the caller gets is whatever that dispatch gives.
DispatchResponse(r, resolves) ==
    /\ apiReq[r].pc = "dispatching"
    /\ apiReq' = [apiReq EXCEPT
                     ![r] = [@ EXCEPT !.pc = IF resolves THEN "resolved"
                                             ELSE "rejected",
                                      !.result = "dispatch of the response"]]
    /\ UNCHANGED <<apiOnline, requestQueue, isRefreshingToken,
                   tokenRefreshPromise, refreshSubscribers, refreshes,
                   authToken, logoutCalls, nonApi>>

ShouldRefreshMutant(request, status) == status = 401

\* error.response?.status === 401 && !originalRequest._retry && authProvider
ShouldRefresh(request, status) == status = 401 /\ ~request.retry

\* return Promise.reject(error)
Reject(request, status, result) ==
    [request EXCEPT !.pc = "rejected", !.last = status, !.result = result]

\* A 401 response: a refresh starts unless isRefreshingToken, and the
\* request subscribes and hangs its reject on tokenRefreshPromise; a request
\* marked _retry is rejected.
Respond401(r) ==
    /\ apiReq[r].pc = "sent"
    /\ IF ShouldRefresh(apiReq[r], 401)
       THEN LET id == IF isRefreshingToken THEN tokenRefreshPromise
                      ELSE RefreshesStarted + 1
            IN /\ id \in RefreshIds
               /\ isRefreshingToken' = TRUE
               /\ tokenRefreshPromise' = id
               /\ refreshes' = IF isRefreshingToken THEN refreshes
                               ELSE [refreshes EXCEPT ![id].st = "refreshing"]
               /\ refreshSubscribers' = Append(refreshSubscribers, r)
               /\ apiReq' =
                      [apiReq EXCEPT
                          ![r] = IF refreshes'[id].st = "rejected"
                                 THEN [Reject(@, 401, "refresh failed") EXCEPT
                                          !.subscribed = @ + 1, !.waitingOn = id]
                                 ELSE [@ EXCEPT !.pc = "waiting", !.last = 401,
                                                !.subscribed = @ + 1,
                                                !.waitingOn = id]]
       ELSE /\ apiReq' = [apiReq EXCEPT ![r] = Reject(@, 401, "error")]
            /\ UNCHANGED <<isRefreshingToken, tokenRefreshPromise, refreshes,
                           refreshSubscribers>>
    /\ UNCHANGED <<apiOnline, requestQueue, authToken, logoutCalls, nonApi>>

\* case 429: the request is sent again after retryAfter * 1000 ms
Respond429(r, header) ==
    /\ apiReq[r].pc = "sent"
    /\ apiReq' = [apiReq EXCEPT
                     ![r] = [@ EXCEPT !.pc = "backoff", !.last = 429,
                                      !.delays = Append(@, RetryDelay(header))]]
    /\ UNCHANGED <<apiOnline, requestQueue, isRefreshingToken,
                   tokenRefreshPromise, refreshSubscribers, refreshes,
                   authToken, logoutCalls, nonApi>>

\* setTimeout(() => resolve(apiClient(originalRequest)), ...)
TimerFires(r) ==
    /\ apiReq[r].pc = "backoff"
    /\ apiReq' = [apiReq EXCEPT ![r].pc = "resend"]
    /\ UNCHANGED <<apiOnline, requestQueue, isRefreshingToken,
                   tokenRefreshPromise, refreshSubscribers, refreshes,
                   authToken, logoutCalls, nonApi>>

\* Any other error response: return Promise.reject(error)
RespondError(r, status) ==
    /\ apiReq[r].pc = "sent"
    /\ apiReq' = [apiReq EXCEPT ![r] = Reject(@, status, "error")]
    /\ UNCHANGED <<apiOnline, requestQueue, isRefreshingToken,
                   tokenRefreshPromise, refreshSubscribers, refreshes,
                   authToken, logoutCalls, nonApi>>

\* error.message === 'Network Error': queued when NetInfo reports no
\* connection, rejected otherwise
NetworkError(r) ==
    /\ apiReq[r].pc = "sent"
    /\ IF ~apiOnline
       THEN /\ apiReq' = [apiReq EXCEPT
                             ![r] = [Enqueue(@, "response") EXCEPT
                                        !.requeued = @ + 1]]
            /\ requestQueue' = Append(requestQueue, r)
       ELSE /\ apiReq' = [apiReq EXCEPT ![r] = Reject(@, 0, "error")]
            /\ UNCHANGED requestQueue
    /\ UNCHANGED <<apiOnline, isRefreshingToken, tokenRefreshPromise,
                   refreshSubscribers, refreshes, authToken, logoutCalls, nonApi>>

\* The .catch of the refresh chain: refreshSubscribers = [],
\* authProvider.logout(), and the rejection reaches every reject hung on
\* this promise.
RefreshFails(id, reqs) ==
    [r \in ApiRequests |->
        IF reqs[r].waitingOn = id /\ reqs[r].pc = "waiting"
        THEN [reqs[r] EXCEPT !.pc = "rejected", !.result = "refresh failed"]
        ELSE reqs[r]]

\* onTokenRefreshed(token): every subscriber callback sets the header and
\* _retry and calls apiClient(originalRequest); its resolve has an effect only
\* while the request's promise is pending.
OnTokenRefreshed(token, reqs) ==
    [r \in ApiRequests |->
        IF r \in SeqToSet(refreshSubscribers)
        THEN [reqs[r] EXCEPT !.auth = token, !.retry = TRUE, !.resent = @ + 1,
                             !.pc = IF @ = "waiting" THEN "resend" ELSE @]
        ELSE reqs[r]]

\* authProvider.refreshToken() settles: the first .then and, when it fails,
\* the .catch
RefreshTokenSettles(id, outcome) ==
    /\ refreshes[id].st = "refreshing"
    /\ isRefreshingToken' = IF outcome = "rejects" THEN isRefreshingToken ELSE FALSE
    /\ IF outcome = "true"
       THEN /\ refreshes' = [refreshes EXCEPT ![id].st = "fetching"]
            /\ authToken' = TokenOfRefresh(id)
            /\ UNCHANGED <<apiReq, refreshSubscribers, logoutCalls>>
       ELSE /\ refreshes' = [refreshes EXCEPT ![id] = [st |-> "rejected",
                                                       outcome |-> outcome]]
            /\ refreshSubscribers' = <<>>
            /\ logoutCalls' = logoutCalls + 1
            /\ authToken' = NoToken
            /\ apiReq' = RefreshFails(id, apiReq)
    /\ UNCHANGED <<apiOnline, requestQueue, tokenRefreshPromise, nonApi>>

\* authProvider.getAccessToken() of the first .then settles: the second
\* .then, or the .catch
GetAccessTokenSettles(id, outcome) ==
    /\ refreshes[id].st = "fetching"
    /\ IF outcome = "rejects"
       THEN /\ refreshes' = [refreshes EXCEPT ![id] = [st |-> "rejected",
                                                       outcome |-> "no token"]]
            /\ refreshSubscribers' = <<>>
            /\ logoutCalls' = logoutCalls + 1
            /\ authToken' = NoToken
            /\ apiReq' = RefreshFails(id, apiReq)
       ELSE /\ refreshes' = [refreshes EXCEPT ![id] = [st |-> "resolved",
                                                       outcome |-> outcome]]
            /\ refreshSubscribers' = <<>>
            /\ apiReq' = OnTokenRefreshed(IF outcome = "null" THEN NoToken
                                          ELSE authToken, apiReq)
            /\ UNCHANGED <<logoutCalls, authToken>>
    /\ UNCHANGED <<apiOnline, requestQueue, isRefreshingToken,
                   tokenRefreshPromise, nonApi>>

\* NetInfo reports the connection lost.
GoOffline ==
    /\ apiOnline
    /\ apiOnline' = FALSE
    /\ UNCHANGED <<apiReq, requestQueue, isRefreshingToken, tokenRefreshPromise,
                   refreshSubscribers, refreshes, authToken, logoutCalls, nonApi>>

\* The NetInfo listener with state.isConnected: the queue is emptied and
\* every entry gets the token getAccessToken gives and goes to apiClient.
GoOnline ==
    /\ ~apiOnline
    /\ apiOnline' = TRUE
    /\ requestQueue' = <<>>
    /\ apiReq' = [r \in ApiRequests |->
                     IF r \in SeqToSet(requestQueue)
                     THEN [WithToken(apiReq[r], authToken) EXCEPT !.pc = "resend"]
                     ELSE apiReq[r]]
    /\ UNCHANGED <<isRefreshingToken, tokenRefreshPromise, refreshSubscribers,
                   refreshes, authToken, logoutCalls, nonApi>>

\* clearQueue()
ClearQueue ==
    /\ requestQueue # <<>>
    /\ requestQueue' = <<>>
    /\ UNCHANGED <<apiReq, apiOnline, isRefreshingToken, tokenRefreshPromise,
                   refreshSubscribers, refreshes, authToken, logoutCalls, nonApi>>

\* Token refresh: requests answered 200, 401 or an error while online.
NextApiRefresh ==
    \/ \E r \in ApiRequests : ApiClient(r)
    \/ \E r \in ApiRequests : RespondOk(r)
    \/ \E r \in ApiRequests : Respond401(r)
    \/ \E r \in ApiRequests : RespondError(r, 403)
    \/ \E i \in RefreshIds, o \in {"true", "false", "rejects"} :
          RefreshTokenSettles(i, o)
    \/ \E i \in RefreshIds, o \in {"token", "null", "rejects"} :
          GetAccessTokenSettles(i, o)

\* Rate limiting: requests answered 200, 429 or an error while online.
NextApiBackoff ==
    \/ \E r \in ApiRequests : ApiClient(r)
    \/ \E r \in ApiRequests : RespondOk(r)
    \/ \E r \in ApiRequests, h \in RetryAfterHeaders : Respond429(r, h)
    \/ \E r \in ApiRequests : TimerFires(r)
    \/ \E r \in ApiRequests, s \in {403, 500} : RespondError(r, s)

\* The offline queue: the connection comes and goes.
NextApiQueue ==
    \/ \E r \in ApiRequests : ApiClient(r)
    \/ \E r \in ApiRequests : RespondOk(r)
    \/ \E r \in ApiRequests, b \in BOOLEAN : DispatchResponse(r, b)
    \/ \E r \in ApiRequests, s \in {403, 500} : RespondError(r, s)
    \/ \E r \in ApiRequests : NetworkError(r)
    \/ GoOffline
    \/ GoOnline
    \/ ClearQueue

(***************************************************************************)
(* Auth provider: src/examples/react-native/auth/auth-provider.js          *)
(***************************************************************************)

\* The getAccessToken calls in progress and the sessions the server issues.
NumTokenCallers == 2
MaxSessions == 3

TokenCallers == 1 .. NumTokenCallers

\* The expiration of a session against now + 5 minutes: later ("far"), not
\* later ("soon", expired included), or not a date (new Date gives Invalid
\* Date for a missing or unparseable expiration).
Expirations == {"far", "soon", "invalid"}

NoSession == [stored |-> FALSE, accessToken |-> 0, refreshToken |-> 0,
              expiration |-> "none"]

\* The session of the nth response of /auth/login or /auth/refresh
Session(n, expiration) ==
    [stored |-> TRUE, accessToken |-> n, refreshToken |-> n,
     expiration |-> expiration]

\* expirationDate <= expirationBuffer
Expiring(expiration) == expiration = "soon"

NoTokenCall ==
    [pc |-> "idle", session |-> NoSession, refreshed |-> "none",
     response |-> NoSession, result |-> "none"]

TokenInit ==
    /\ authSession = NoSession
    /\ sessionsIssued = 0
    /\ tokenCall = [c \in TokenCallers |-> NoTokenCall]

\* login(email, password) succeeds: storeSession of the server's response
Login(expiration) ==
    /\ sessionsIssued < MaxSessions
    /\ \A c \in TokenCallers : tokenCall[c].pc \in {"idle", "done"}
    /\ sessionsIssued' = sessionsIssued + 1
    /\ authSession' = Session(sessionsIssued + 1, expiration)
    /\ UNCHANGED <<tokenCall, nonToken>>

\* Time passes: the stored expiration is no longer 5 minutes away.
TimePasses ==
    /\ authSession.stored /\ authSession.expiration = "far"
    /\ authSession' = [authSession EXCEPT !.expiration = "soon"]
    /\ UNCHANGED <<sessionsIssued, tokenCall, nonToken>>

\* getAccessToken() is called.
GetAccessToken(c) ==
    /\ tokenCall[c].pc \in {"idle", "done"}
    /\ tokenCall' = [tokenCall EXCEPT ![c] = [NoTokenCall EXCEPT !.pc = "read"]]
    /\ UNCHANGED <<authSession, sessionsIssued, nonToken>>

\* getStoredSession(): the session of the keychain, null when there is none
\* or the keychain throws
GetStoredSession(throws) ==
    IF throws THEN NoSession ELSE authSession

\* const session = await getStoredSession() and the checks up to the call
\* of refreshSession(refreshToken), which posts to /auth/refresh
ReadSession(c, throws) ==
    /\ tokenCall[c].pc = "read"
    /\ LET session == GetStoredSession(throws)
       IN IF ~session.stored
          THEN tokenCall' = [tokenCall EXCEPT
                              ![c] = [@ EXCEPT !.pc = "done", !.result = "null"]]
          ELSE IF Expiring(session.expiration)
          THEN tokenCall' = [tokenCall EXCEPT
                              ![c] = [@ EXCEPT !.pc = "refresh",
                                               !.session = session]]
          ELSE tokenCall' = [tokenCall EXCEPT
                              ![c] = [@ EXCEPT !.pc = "done",
                                               !.session = session,
                                               !.result = session.accessToken]]
    /\ UNCHANGED <<authSession, sessionsIssued, nonToken>>

\* The post to /auth/refresh settles: a new session to store, or the catch
\* of refreshSession.
RefreshResponse(c, ok, expiration) ==
    /\ tokenCall[c].pc = "refresh"
    /\ ok => sessionsIssued < MaxSessions
    /\ ~ok => expiration = "far"
    /\ sessionsIssued' = IF ok THEN sessionsIssued + 1 ELSE sessionsIssued
    /\ tokenCall' = [tokenCall EXCEPT
                        ![c] = IF ok
                               THEN [@ EXCEPT !.pc = "store",
                                              !.response = Session(sessionsIssued + 1,
                                                                   expiration)]
                               ELSE [@ EXCEPT !.pc = "clear"]]
    /\ UNCHANGED <<authSession, nonToken>>

\* await storeSession({...}) in refreshSession; it rethrows what the
\* keychain throws
StoreSession(c, throws) ==
    /\ tokenCall[c].pc = "store"
    /\ authSession' = IF throws THEN authSession ELSE tokenCall[c].response
    /\ tokenCall' = [tokenCall EXCEPT
                        ![c] = IF throws THEN [@ EXCEPT !.pc = "clear"]
                               ELSE [@ EXCEPT !.pc = "reread", !.refreshed = "true"]]
    /\ UNCHANGED <<sessionsIssued, nonToken>>

\* await clearSession() in the catch of refreshSession, return false, and
\* getAccessToken returns null
ClearSession(c, throws) ==
    /\ tokenCall[c].pc = "clear"
    /\ authSession' = IF throws THEN authSession ELSE NoSession
    /\ tokenCall' = [tokenCall EXCEPT
                        ![c] = [@ EXCEPT !.pc = "done", !.refreshed = "false",
                                         !.result = "null"]]
    /\ UNCHANGED <<sessionsIssued, nonToken>>

\* const newSession = await getStoredSession();
\* return newSession.accessToken, or null from the catch
ReadNewSession(c, throws) ==
    /\ tokenCall[c].pc = "reread"
    /\ LET newSession == GetStoredSession(throws)
       IN tokenCall' = [tokenCall EXCEPT
                           ![c] = [@ EXCEPT
                                      !.pc = "done",
                                      !.result = IF newSession.stored
                                                 THEN newSession.accessToken
                                                 ELSE "null"]]
    /\ UNCHANGED <<authSession, sessionsIssued, nonToken>>

NextToken ==
    \/ \E e \in Expirations : Login(e)
    \/ TimePasses
    \/ \E c \in TokenCallers : GetAccessToken(c)
    \/ \E c \in TokenCallers, f \in BOOLEAN : ReadSession(c, f)
    \/ \E c \in TokenCallers, ok \in BOOLEAN, e \in Expirations :
          RefreshResponse(c, ok, e)
    \/ \E c \in TokenCallers, f \in BOOLEAN : StoreSession(c, f)
    \/ \E c \in TokenCallers, f \in BOOLEAN : ClearSession(c, f)
    \/ \E c \in TokenCallers, f \in BOOLEAN : ReadNewSession(c, f)

Init ==
    /\ RateInit /\ AuthInit /\ CsrfInit /\ UsersInit /\ StoreInit
    /\ BioInit /\ PermInit /\ FetchInit /\ ApiInit /\ TokenInit

NextRate ==
    \/ \E l \in Limits, t \in Tokens : Check(l, t)
    \/ \E t \in Tokens : Expire(t)
    \/ \E t \in Tokens : Reset(t)
    \/ \E l \in 1 .. MaxLimit, h \in BOOLEAN, t \in Tokens : WithRateLimit(l, h, t)
    \/ \E l \in 1 .. MaxLimit, h \in BOOLEAN, t \in Tokens : Middleware(l, h, t)

SpecRate == Init /\ [][NextRate]_vars

SpecAuth == Init /\ [][NextAuth]_vars

SpecCsrf == Init /\ [][NextCsrf]_vars

SpecUsers == Init /\ [][NextUsers]_vars

SpecStore == Init /\ [][NextStore]_vars

SpecStoreConcurrent == Init /\ [][NextStoreConcurrent]_vars

SpecBio == Init /\ [][NextBio]_vars

SpecPerm == Init /\ [][NextPerm]_vars

SpecPermCheck == Init /\ [][NextPermCheck]_vars

SpecFetch == Init /\ [][NextFetch]_vars

SpecApiRefresh == Init /\ [][NextApiRefresh]_vars

SpecApiBackoff == Init /\ [][NextApiBackoff]_vars

SpecApiQueue == Init /\ [][NextApiQueue]_vars

SpecHistory == Init /\ [][NextHistory]_vars

SpecToken == Init /\ [][NextToken]_vars

C2_WrappedHandlerLimited ==
    (rl.op \in {"withRateLimit", "middleware"} /\ rl.hdr) =>
        IF rl.nth <= rl.limit
        THEN rl.handlerInvoked /\ RateLimitHeaders \subseteq rl.headers
        ELSE rl.status = 429 /\ "Retry-After" \in rl.headers /\ ~rl.handlerInvoked

\* The pathname is /dashboard, /admin or /api/admin, or nested under one.
UnderProtected(pathname) ==
    \E r \in {<<"dashboard">>, <<"admin">>, <<"api", "admin">>} :
        Len(pathname) >= Len(r) /\ SubSeq(pathname, 1, Len(r)) = r

\* The role grants the route under the hierarchy: admin all three routes,
\* user /dashboard only, any other or no role none.
Grants(role, pathname) ==
    \/ role = "admin"
    \/ role = "user" /\ pathname[1] = "dashboard"

\* C3: for a path equal to or nested under /dashboard, /admin or /api/admin the
\* auth middleware returns the pass-through response only if getToken returned
\* a token whose role grants the route; otherwise a redirect or a 401/403.
C3_PassThroughOnlyIfGranted ==
    UnderProtected(mw.pathname) =>
        IF mw.got.kind = "token" /\ Grants(mw.got.role, mw.pathname)
        THEN mw.response.kind = "next"
        ELSE \/ mw.response.kind = "redirect"
             \/ mw.response.kind = "json" /\ mw.response.status \in {401, 403}

C3_Witness ==
    /\ mw.pathname = <<"dashboard", "x">>
    /\ mw.got = [kind |-> "token", role |-> "user"]
    /\ mw.response.kind = "next"

\* C4: every response the auth middleware returns carries the secure headers.
C4_SecureHeadersOnAllResponses ==
    SecureHeaderNames \subseteq mw.response.headers

\* C6: the handler wrapped by withCsrfApiRoute is invoked only after
\* csrfMiddleware completed without error; a CSRF_TOKEN_INVALID failure of the
\* validation gives 403 with the handler never invoked; any other error 500.
C6_CsrfBeforeHandler ==
    \A q \in CsrfRequests :
        /\ csrf[q].handlerInvoked => csrf[q].csrfResult = "ok"
        /\ csrf[q].csrfResult = "CSRF_TOKEN_INVALID" =>
               (csrf[q].pc = "done" /\ csrf[q].status = 403 /\ ~csrf[q].handlerInvoked)
        /\ (csrf[q].pc = "done" /\ csrf[q].thrown \notin {"none", "CSRF_TOKEN_INVALID"}) =>
               csrf[q].status = 500

C6_Witness ==
    /\ csrf[1].pc = "done" /\ csrf[1].csrfResult = "CSRF_TOKEN_INVALID"
    /\ csrf[1].status = 403 /\ ~csrf[1].handlerInvoked
    /\ csrf[2].pc = "done" /\ csrf[2].handlerInvoked /\ csrf[2].thrown = "ECONNRESET"
    /\ csrf[2].status = 500

IsPrefix(a, b) == Len(a) <= Len(b) /\ SubSeq(b, 1, Len(a)) = a

RateWithin == route.nth <= RouteLimit(route.method)
HasSession == route.session.kind # "null"
IsAdmin == route.session.kind = "session" /\ route.session.role = "admin"

\* C5: GET and POST of the users route check, in this order and stopping at the
\* first failure, the rate limit (429), the session (401), the admin role (403)
\* and the input (400); 200 or 201 is returned only when all four pass.
C5_ChecksInOrder ==
    /\ IsPrefix(route.checks, <<"rate", "session", "role", "input">>)
    /\ route.pc = "done" =>
        /\ (Len(route.checks) >= 1 /\ ~RateWithin) =>
               (route.status = 429 /\ Len(route.checks) = 1)
        /\ (Len(route.checks) >= 2 /\ ~HasSession) =>
               (route.status = 401 /\ Len(route.checks) = 2)
        /\ (Len(route.checks) >= 3 /\ ~IsAdmin) =>
               (route.status = 403 /\ Len(route.checks) = 3)
        /\ (Len(route.checks) >= 4 /\ route.input # "valid") =>
               (route.status = 400 /\ Len(route.checks) = 4)
        /\ route.status = 429 => ~RateWithin
        /\ route.status = 401 => (RateWithin /\ ~HasSession)
        /\ route.status = 403 => (RateWithin /\ HasSession /\ ~IsAdmin)
        /\ route.status = 400 =>
               (RateWithin /\ HasSession /\ IsAdmin /\ route.input = "invalid")
        /\ route.status \in {200, 201} =>
               /\ Len(route.checks) = 4
               /\ RateWithin /\ HasSession /\ IsAdmin /\ route.input = "valid"
               /\ route.status = IF route.method = "GET" THEN 200 ELSE 201

C5_Witness ==
    /\ route.pc = "done" /\ route.method = "POST" /\ route.status = 201
    /\ route.nth = PostLimit

\* C7: after secureStore(k, v, L) returned true and with no other write to k,
\* secureRetrieve(k, L) returns a value equal to v, whatever the level and the
\* JSON-serialisable value.
C7_StoreRetrieveRoundTrip ==
    (/\ storeCall.op = "retrieve" /\ ~storeCall.threw
     /\ lastWrite[storeCall.key].op = "store" /\ lastWrite[storeCall.key].ok
     /\ lastWrite[storeCall.key].level = storeCall.level)
        => storeCall.result = lastWrite[storeCall.key].value

\* C8: after secureRemove(k, L) returned true, secureRetrieve(k, L) returns
\* null until the next successful secureStore(k, _, L).
C8_NullAfterRemove ==
    (storeCall.op = "retrieve" /\ removed[storeCall.key][storeCall.level])
        => storeCall.result = Null

Authenticated == bio.authenticated

\* C9: secureBiometricData writes to the keychain, and retrieveBiometricData
\* reads it and returns data other than null, only in a call whose
\* authenticateWithBiometrics returned true; in a call whose prompt failed, was
\* cancelled or threw, the keychain is as it was when the call started, the
\* first has returned false and the second null.
C9_KeychainOnlyAfterAuthentication ==
    /\ (bio.wrote \/ bio.read) => Authenticated
    /\ bioKeychain # bio.before => (Authenticated /\ bio.op = "secureBiometricData")
    /\ (bio.pc = "done" /\ bio.op = "retrieveBiometricData" /\ bio.result # Null)
           => (Authenticated /\ bio.read)
    /\ (bio.pc = "done" /\ bio.prompt \in {"fail", "cancel", "throws"})
           => /\ ~bio.ok /\ bio.result = Null
              /\ ~bio.wrote /\ ~bio.read
              /\ bioKeychain = bio.before

\* A retrieveBiometricData call whose prompt was cancelled has returned null
\* although the keychain holds data for its key.
C9_Witness ==
    /\ bio.pc = "done" /\ bio.op = "retrieveBiometricData"
    /\ bio.prompt = "cancel"
    /\ bioKeychain[bio.key].has
    /\ bio.result = Null

Granted == perm.status = RESULTS.GRANTED \/ perm.result = RESULTS.GRANTED

\* C10: a requestPermission call that has returned has returned true exactly
\* when the status from check or the result from request is GRANTED.
C10_TrueOnlyIfGranted ==
    (perm.op = "requestPermission" /\ perm.returned) => (perm.ret <=> Granted)

\* The listed type is configured, available on the platform and its current
\* status is GRANTED.
ListedGranted(t) ==
    /\ GetPermissionByPlatform(t, platformOS) # NoPermission
    /\ permCheck.outcome[t] = RESULTS.GRANTED

\* C11: hasRequiredPermissions(list) has returned true only if every type of
\* the list is granted; with a type that is unknown, not available on the
\* platform, not granted or whose check failed it has returned false.
C11_TrueOnlyIfAllGranted ==
    permCheck.op = "hasRequiredPermissions" =>
        (permCheck.ret <=>
            \A i \in 1 .. Len(permCheck.list) : ListedGranted(permCheck.list[i]))

\* The entries of PINNED_DOMAINS that cover a host: the host is listed, or
\* is a subdomain of a listed host whose includeSubdomains is true.
PinningEntries(host) ==
    {p \in DOMAIN PINNED_DOMAINS :
        \/ p = host
        \/ /\ PINNED_DOMAINS[p].includeSubdomains
           /\ Len(host) > Len(p)
           /\ \A i \in 1 .. Len(p) : host[Len(host) - Len(p) + i] = p[i]}

\* C12: a request to a host that a pinning entry covers goes through
\* sslPinningFetch with that entry's certs and never through fetch, fetch
\* is used only for hosts no entry covers, and nothing is sent unless NetInfo
\* reported a connection.
C12_PinnedHostsOnlyThroughPinning ==
    /\ fetchCall.via # "none" =>
           /\ fetchCall.isConnected = "true"
           /\ fetchCall.url.valid
           /\ PinningEntries(fetchCall.url.host) # {} =>
                  /\ fetchCall.via = "sslPinningFetch"
                  /\ \E p \in PinningEntries(fetchCall.url.host) :
                         fetchCall.certs = PINNED_DOMAINS[p].certs
    /\ fetchCall.via = "fetch" => PinningEntries(fetchCall.url.host) = {}
    /\ (fetchCall.pc = "done" /\ fetchCall.isConnected # "true") =>
           (fetchCall.via = "none" /\ fetchCall.settled = "rejected")

\* A request to a subdomain of api.example.com has gone through
\* sslPinningFetch.
C12_Witness ==
    /\ fetchCall.pc = "done"
    /\ fetchCall.via = "sslPinningFetch"
    /\ fetchCall.url.host = <<"auth", "api", "example", "com">>

\* A refresh is in progress from the call of refreshToken until its chain
\* has notified the waiting requests or failed.
RefreshInProgress(i) == refreshes[i].st \in {"refreshing", "fetching"}

\* C13: no refresh starts while one is in progress, so at most one is at any
\* time, and a request that waited on a refresh that succeeded has been
\* re-sent exactly once, by the callback that sets the new token.
C13_OneRefreshAtATime ==
    /\ Cardinality({i \in RefreshIds : RefreshInProgress(i)}) <= 1
    /\ \A r \in ApiRequests :
           /\ apiReq[r].resent <= 1
           /\ (apiReq[r].waitingOn # 0
                  /\ refreshes[apiReq[r].waitingOn].st = "resolved")
                 => (apiReq[r].resent = 1 /\ apiReq[r].retry)

\* The refresh failed: refreshToken resolved false or rejected, or
\* getAccessToken rejected or gave no token.
RefreshFailed(i) ==
    \/ refreshes[i].st = "rejected"
    \/ refreshes[i].st = "resolved" /\ refreshes[i].outcome = "null"

\* C14: once a refresh has failed, every request that waited on it is
\* rejected and none of them has been re-sent, and logout has been called.
C14_FailedRefreshRejectsWaiters ==
    \A i \in RefreshIds :
        RefreshFailed(i) =>
            /\ logoutCalls >= 1
            /\ \A r \in ApiRequests :
                   apiReq[r].waitingOn = i =>
                       (apiReq[r].pc = "rejected" /\ apiReq[r].resent = 0)

\* C15: a getAccessToken call that has returned has returned null when it
\* read no session, the stored token only when the expiration it read was more
\* than 5 minutes away, and otherwise, after a refresh, the token that refresh
\* stored when it succeeded and null when it failed.
C15_StoredTokenOnlyIfNotExpiring ==
    \A c \in TokenCallers :
        tokenCall[c].pc = "done" =>
            /\ ~tokenCall[c].session.stored => tokenCall[c].result = "null"
            /\ (tokenCall[c].session.stored /\ tokenCall[c].refreshed = "none")
                   => /\ tokenCall[c].session.expiration = "far"
                      /\ tokenCall[c].result = tokenCall[c].session.accessToken
            /\ tokenCall[c].refreshed = "true"
                   => tokenCall[c].result = tokenCall[c].response.accessToken
            /\ tokenCall[c].refreshed = "false" => tokenCall[c].result = "null"
            /\ (tokenCall[c].session.stored /\ tokenCall[c].session.expiration # "far")
                   => tokenCall[c].refreshed # "none"

\* The last HistoryLimit elements of a sequence, in its order
MostRecent(s) ==
    IF Len(s) > HistoryLimit THEN SubSeq(s, Len(s) - HistoryLimit + 1, Len(s))
    ELSE s

\* C16: after any sequence of savePermissionHistory calls the stored history
\* of each permission type has at most 5 entries, and they are the 5 most
\* recent results recorded for that type, in the order they were recorded.
C16_HistoryIsFiveMostRecent ==
    \A t \in DOMAIN PERMISSION_TYPES :
        /\ Len(permHistory[t]) <= 5
        /\ [i \in 1 .. Len(permHistory[t]) |-> permHistory[t][i].result]
               = MostRecent(permRecorded[t])

\* C16 witness: more than 5 results, not all the same, were recorded for a
\* type.
C16_Witness ==
    \E t \in DOMAIN PERMISSION_TYPES :
        /\ Len(permRecorded[t]) > 5
        /\ permRecorded[t][1] # permRecorded[t][Len(permRecorded[t])]
        /\ Len(permHistory[t]) = 5

\* C17: a request is re-sent at most once after a token refresh, and a
\* re-sent request (marked _retry) that receives a 401 again subscribes to no
\* refresh and starts none: it never waits on a refresh a second time.
C17_ResentAtMostOnce ==
    \A r \in ApiRequests :
        /\ apiReq[r].resent <= 1
        /\ apiReq[r].subscribed <= 1
        /\ apiReq[r].retry =>
               /\ apiReq[r].resent = 1
               /\ apiReq[r].subscribed = 1
               /\ apiReq[r].pc # "waiting"

\* C17 witness: a re-sent request received a 401 again and was rejected with
\* that error.
C17_Witness ==
    \E r \in ApiRequests :
        /\ apiReq[r].retry /\ apiReq[r].resent = 1
        /\ apiReq[r].pc = "rejected"
        /\ apiReq[r].last = 401
        /\ apiReq[r].result = "error"

\* C18: a request answered with 429 is retried with exponential backoff: the
\* delay before each retry of a request is larger than the delay before its
\* previous retry.
C18_BackoffDelaysGrow ==
    \A r \in ApiRequests :
        \A i \in 1 .. Len(apiReq[r].delays) - 1 :
            apiReq[r].delays[i] < apiReq[r].delays[i + 1]

\* C19: a request that was placed in requestQueue and taken out of it when
\* connectivity returned is settled with the response or the error of its
\* re-send, and with nothing else.
C19_QueuedRequestGetsResendResult ==
    \A r \in ApiRequests :
        apiReq[r].queuedBy # "none" =>
            /\ apiReq[r].pc # "dispatching"
            /\ apiReq[r].pc \in {"resolved", "rejected"}
                   => apiReq[r].result \in {"response", "error"}

\* The key and the ciphertext call c writes
Writes(c, key) ==
    /\ keychain[key].encryption_key = Item(encCall[c].encryptionKey)
    /\ asyncStorage[key] = Item(EncryptXOR(JSONstringify(encCall[c].value),
                                           encCall[c].encryptionKey))

\* C20: when the concurrent secureStore calls at level SENSITIVE on a key
\* have all returned true, the encryption key in the keychain and the
\* ciphertext in AsyncStorage are those of one of the calls, and a
\* secureRetrieve that follows returns the value of one of them.
C20_ConcurrentStoresLeaveAMatchingPair ==
    (\A c \in Storers : encCall[c].pc = "returned" /\ encCall[c].ret) =>
        \A k \in StorageKeys :
            /\ \E c \in Storers : Writes(c, k)
            /\ (storeCall.op = "retrieve" /\ storeCall.key = k /\ ~storeCall.threw)
                   => \E c \in Storers : storeCall.result = encCall[c].value

\* C21: once the token refresh that tokenRefreshPromise stands for has
\* failed, isRefreshingToken is false again, so that the next 401 starts a
\* new refresh.
C21_FlagClearedAfterFailedRefresh ==
    isRefreshingToken => refreshes[tokenRefreshPromise].st # "rejected"

\* C22: no caller is left waiting on a dropped queue entry: a request whose
\* promise waits for the offline queue has its entry in requestQueue, where
\* the NetInfo listener finds it when connectivity returns.
C22_NoPendingRequestDropped ==
    \A r \in ApiRequests :
        apiReq[r].pc = "queued" => r \in SeqToSet(requestQueue)

\* Two calls have a request to /auth/refresh with the same refresh token
\* outstanding.
SameRefreshTwice(c, d) ==
    /\ c # d
    /\ tokenCall[c].pc = "refresh" /\ tokenCall[d].pc = "refresh"
    /\ tokenCall[c].session.refreshToken = tokenCall[d].session.refreshToken

\* The step is the clearSession of call c's failed refresh, and it removes
\* the session that the refresh of another call stored after c had read the
\* session it refreshed.
ClearsOthersSession(c) ==
    /\ tokenCall[c].pc = "clear" /\ tokenCall'[c].pc = "done"
    /\ \E d \in TokenCallers \ {c} :
           /\ tokenCall[d].refreshed = "true"
           /\ authSession = tokenCall[d].response
    /\ tokenCall[c].session.refreshToken # authSession.refreshToken
    /\ authSession' # authSession

\* C23: of the getAccessToken calls that run at once, at most one posts the
\* stored refresh token to /auth/refresh, and the failure of one call's
\* refresh never clears the session another call's refresh has stored.
C23_OneRefreshPerStoredToken ==
    /\ [](\A c, d \in TokenCallers : ~SameRefreshTwice(c, d))
    /\ [][\A c \in TokenCallers : ~ClearsOthersSession(c)]_vars

=============================================================================
